---- MODULE Spec2Model ----
(***************************************************************************)
(* Argument validation of ansible_module_rs: AnsibleModuleBuilder (its     *)
(* setters and build, src/src/builder.rs) together with the emission       *)
(* helpers of AnsibleModule (src/src/ansible_module.rs).                   *)
(*                                                                         *)
(* Option<T> is a sequence of length at most one: <<>> is None and <<x>>   *)
(* is Some(x).  A HashMap is a function from its keys; the order in which  *)
(* a HashMap is iterated is not fixed by the program (std's RandomState    *)
(* seeds every map anew), so every loop over a HashMap takes its elements  *)
(* in an order chosen nondeterministically.                                *)
(***************************************************************************)
EXTENDS Integers, Sequences, FiniteSets, TLC

VARIABLES
    argument_spec,          \* builder field: the raw argument spec (a JSON value)
    all_input_args,         \* builder field: the process arguments and the file they name
    mutually_exclusive,     \* builder field: Option<MutuallyExclusive>
    required_together,      \* builder field: Option<RequiredTogether>
    required_one_of,        \* builder field: Option<RequiredOneOf>
    required_if,            \* builder field: Option<RequiredIf>
    required_by,            \* builder field: Option<RequiredBy>
    environ,                \* the process environment: variable name -> state
    pc,                     \* position inside build
    input_json,             \* build local: the parsed input document
    module_args,            \* build local: the candidate bucket
    spec_args,              \* build local: the deserialized ArgumentSpec
    todo,                   \* build local: declared names the reconciliation loop has not visited
    result_params,          \* build local: name -> ArgumentValue
    missing_required_args,  \* build local: Vec<String>
    outcome,                \* what build returned: Option<Result<AnsibleModule, String>>
    stdout,                 \* documents printed by fail_json / exit_json
    failed_at,              \* history: the phase that returned the failure ("" if none)
    setter_calls,           \* history: number of setter calls made on this builder
    calls,                  \* history: number of build calls started with these inputs
    first_outcome,          \* history: outcome of the first of these build calls
    exit_call,              \* history: the arguments of the exit_json call (None before it)
    env_reads,              \* history: (argument, variable) -> number of env::var calls of this build
    last_setter             \* history: the setter called last on the builder, with its list
                            \* (None before any call and once build has taken the builder)

vars == <<argument_spec, all_input_args, mutually_exclusive, required_together,
          required_one_of, required_if, required_by, environ, pc, input_json,
          module_args, spec_args, todo, result_params, missing_required_args,
          outcome, stdout, failed_at, setter_calls, calls, first_outcome, exit_call,
          env_reads, last_setter>>

builder_fields == <<argument_spec, all_input_args>>
groups == <<mutually_exclusive, required_together, required_one_of, required_if, required_by>>
locals == <<input_json, module_args, spec_args, todo, result_params, missing_required_args>>
history == <<setter_calls, calls, first_outcome, exit_call, last_setter>>

(***************************************************************************)
(* Option                                                                  *)
(***************************************************************************)
None == <<>>
Some(x) == <<x>>
IsSome(o) == Len(o) = 1
Unwrap(o) == o[1]

(***************************************************************************)
(* serde_json::Value.  kind is the variant; for a Number n is serde_json's *)
(* internal class (PosInt, NegInt, Float), i the integer and s the text of *)
(* a float; for a String s is the text; for a Bool i is 1 for true.        *)
(* Arrays and objects are sampled by their empty instances.  Every sample  *)
(* integer lies inside i64, where a PosInt is both an i64 and a u64.       *)
(***************************************************************************)
JNull == [kind |-> "Null", n |-> "-", i |-> 0, s |-> ""]
JBool(b) == [kind |-> "Bool", n |-> "-", i |-> IF b THEN 1 ELSE 0, s |-> ""]
JString(t) == [kind |-> "String", n |-> "-", i |-> 0, s |-> t]
JInt(k) == [kind |-> "Number", n |-> IF k < 0 THEN "NegInt" ELSE "PosInt", i |-> k, s |-> ""]
JFloat(t) == [kind |-> "Number", n |-> "Float", i |-> 0, s |-> t]
JArray == [kind |-> "Array", n |-> "-", i |-> 0, s |-> ""]
JObject == [kind |-> "Object", n |-> "-", i |-> 0, s |-> ""]

is_boolean(val) == val.kind = "Bool"
is_string(val) == val.kind = "String"
is_f64(val) == val.kind = "Number" /\ val.n = "Float"
is_i64(val) == val.kind = "Number" /\ val.n \in {"PosInt", "NegInt"}
is_u64(val) == val.kind = "Number" /\ val.n = "PosInt"
is_array(val) == val.kind = "Array"
is_object(val) == val.kind = "Object"

\* Display of a Value ({}): its JSON text.
DisplayValue(val) ==
    CASE val.kind = "Null" -> "null"
      [] val.kind = "Bool" -> (IF val.i = 1 THEN "true" ELSE "false")
      [] val.kind = "String" -> "\"" \o val.s \o "\""
      [] val.kind = "Number" -> (IF val.n = "Float" THEN val.s ELSE ToString(val.i))
      [] val.kind = "Array" -> "[]"
      [] val.kind = "Object" -> "{}"

\* Debug of a Value ({:?}).
DebugValue(val) ==
    CASE val.kind = "Null" -> "Null"
      [] val.kind = "Bool" -> "Bool(" \o DisplayValue(val) \o ")"
      [] val.kind = "String" -> "String(" \o DisplayValue(val) \o ")"
      [] val.kind = "Number" -> "Number(" \o DisplayValue(val) \o ")"
      [] val.kind = "Array" -> "Array []"
      [] val.kind = "Object" -> "Object {}"

\* Debug of a String: the text in double quotes.
DebugString(t) == "\"" \o t \o "\""

RECURSIVE JoinFrom(_, _)
JoinFrom(texts, k) ==
    IF k > Len(texts) THEN ""
    ELSE (IF k = 1 THEN "" ELSE ", ") \o texts[k] \o JoinFrom(texts, k + 1)

RECURSIVE JoinFromNoSpace(_, _)
JoinFromNoSpace(texts, k) ==
    IF k > Len(texts) THEN ""
    ELSE (IF k = 1 THEN "" ELSE ",") \o texts[k] \o JoinFromNoSpace(texts, k + 1)

\* Debug of a Vec: the elements' Debug, comma separated, in brackets.
DebugStringVec(names) == "[" \o JoinFrom([k \in 1..Len(names) |-> DebugString(names[k])], 1) \o "]"
DebugValueVec(vals) == "[" \o JoinFrom([k \in 1..Len(vals) |-> DebugValue(vals[k])], 1) \o "]"

\* a variant that looks for two underscores
starts_with_two_underscores(k) == Len(k) > 1 /\ SubSeq(k, 1, 2) = "__"

\* str::starts_with('_')
starts_with_underscore(k) == Len(k) > 0 /\ SubSeq(k, 1, 1) = "_"

\* Vec::contains / slice::contains
Contains(seq, x) == \E k \in 1..Len(seq) : seq[k] = x

\* The sequences that list every element of a set once: the orders in which a
\* HashMap holding these keys can be iterated.
Orders(S) == {f \in [1..Cardinality(S) -> S] : \A a, b \in 1..Cardinality(S) : f[a] = f[b] => a = b}

(***************************************************************************)
(* ArgumentType and Argument                                               *)
(***************************************************************************)
ArgumentTypes == {"Bool", "Str", "Float", "Int", "Uint", "List", "Dict"}

\* #[serde(rename_all = "lowercase")]: the name each variant deserializes from.
ArgumentTypeName(t) ==
    CASE t = "Bool" -> "bool"
      [] t = "Str" -> "str"
      [] t = "Float" -> "float"
      [] t = "Int" -> "int"
      [] t = "Uint" -> "uint"
      [] t = "List" -> "list"
      [] t = "Dict" -> "dict"

check_type_correct_uint_as_int(value_type, val) ==
    CASE value_type = "Bool" -> is_boolean(val)
      [] value_type = "Str" -> is_string(val)
      [] value_type = "Float" -> is_f64(val)
      [] value_type = "Int" -> is_i64(val)
      [] value_type = "Uint" -> is_i64(val)
      [] value_type = "List" -> is_array(val)
      [] value_type = "Dict" -> is_object(val)

check_type_correct(value_type, val) ==
    CASE value_type = "Bool" -> is_boolean(val)
      [] value_type = "Str" -> is_string(val)
      [] value_type = "Float" -> is_f64(val)
      [] value_type = "Int" -> is_i64(val)
      [] value_type = "Uint" -> is_u64(val)
      [] value_type = "List" -> is_array(val)
      [] value_type = "Dict" -> is_object(val)

\* An entry of the raw spec: the fields of Argument, the type still a name
\* (Option: the field may be missing).
RawArgument(type, required, no_log, default, fallback, choices) ==
    [type |-> type, required |-> required, no_log |-> no_log,
     default |-> default, fallback |-> fallback, choices |-> choices]

\* serde's derive of Deserialize for Argument: the error, or "" when the entry is
\* well formed.  serde quotes names with a grave accent, written ' here (a TLA+
\* string cannot hold that character).
ArgumentError(raw) ==
    IF ~IsSome(raw.type) THEN "missing field 'type'"
    ELSE IF \A t \in ArgumentTypes : ArgumentTypeName(t) # Unwrap(raw.type)
    THEN "unknown variant '" \o Unwrap(raw.type)
         \o "', expected one of 'bool', 'str', 'float', 'int', 'uint', 'list', 'dict'"
    ELSE ""

DeserializeArgument(raw) ==
    [value_type |-> CHOOSE t \in ArgumentTypes : ArgumentTypeName(t) = Unwrap(raw.type),
     required |-> raw.required, no_log |-> raw.no_log, default |-> raw.default,
     fallback |-> raw.fallback, choices |-> raw.choices]

ArgumentValue(value, no_log) == [value |-> value, no_log |-> no_log]


\* HashMap::insert
Insert(m, k, v) == [x \in DOMAIN m \cup {k} |-> IF x = k THEN v ELSE m[x]]

EmptyMap == [x \in {} |-> x]

(***************************************************************************)
(* The input document.  A JSON object carries its members in fields; the   *)
(* keys of KeyPool are listed in byte order, the order in which serde_json *)
(* keeps and prints the members of an object.                              *)
(***************************************************************************)
KeyPool == <<"_ansible_verbosity", "api_url", "extra", "login", "url">>

JObjectOf(f) == [kind |-> "Object", n |-> "-", i |-> 0, s |-> "", fields |-> f]

\* The members of a document in the order of their keys.
MemberOrder(doc) ==
    LET F[k \in 0..Len(KeyPool)] ==
            IF k = 0 THEN <<>>
            ELSE IF KeyPool[k] \in DOMAIN doc.fields THEN Append(F[k - 1], KeyPool[k])
            ELSE F[k - 1]
    IN F[Len(KeyPool)]

\* Display of the input document.
DisplayDocument(doc) ==
    IF doc.kind = "Object" /\ DOMAIN doc.fields # {}
    THEN LET keys == MemberOrder(doc)
         IN "{" \o JoinFromNoSpace([k \in 1..Len(keys) |->
                  DebugString(keys[k]) \o ":" \o DisplayValue(doc.fields[keys[k]])], 1) \o "}"
    ELSE DisplayValue(doc)

\* std::env::var: the state of a variable of the environment.
EnvSet(text) == [state |-> "set", val |-> text]
EnvNotPresent == [state |-> "not_present", val |-> ""]
EnvNotUnicode(debug) == [state |-> "not_unicode", val |-> debug]

\* Display of std::env::VarError
\* a variant that renders the error with its variant name
VarErrorTextDebug(e) ==
    IF e.state = "not_present" THEN "NotPresent"
    ELSE "NotUnicode(" \o e.val \o ")"

VarErrorText(e) ==
    IF e.state = "not_present" THEN "environment variable not found"
    ELSE "environment variable was not valid unicode: " \o e.val

\* Result<_, String>
Ok(val) == [tag |-> "Ok", msg |-> "", val |-> val]
Err(msg) == [tag |-> "Err", msg |-> msg, val |-> EmptyMap]


(***************************************************************************)
(* Step 0 of build: the input file and the argument spec                   *)
(***************************************************************************)
\* The file the process arguments name: readable with a JSON text, readable with
\* a text that is no JSON, or unreadable.
FileJson(doc) == [state |-> "json", text |-> DisplayDocument(doc), value |-> doc]
FileMalformed(text, error) == [state |-> "malformed", text |-> text, value |-> JNull, error |-> error]
FileUnreadable(error) == [state |-> "unreadable", text |-> "", value |-> JNull, error |-> error]

InputArgs(args, file) == [args |-> args, file |-> file]

parse_input_json(input) ==
    IF Len(input.args) # 2
    THEN Err("Module '" \o input.args[1] \o "' expects exactly one argument!\n "
             \o "No module arguments file provided")
    ELSE IF input.file.state = "unreadable"
    THEN Err("Could not read input json file '" \o input.args[2] \o "': " \o input.file.error)
    ELSE IF input.file.state = "malformed"
    THEN Err("Could not parse JSON from input " \o input.file.text \o ": " \o input.file.error)
    ELSE IF ~is_object(input.file.value)
    THEN Err(DisplayDocument(input.file.value) \o " must be an object")
    ELSE Ok(input.file.value)

\* a variant that keeps every member of the input
CandidateBucketAll(doc) == doc.fields

\* The candidate bucket: the members whose key does not start with '_'.
CandidateBucket(doc) ==
    [k \in {x \in DOMAIN doc.fields : ~starts_with_underscore(x)} |-> doc.fields[k]]

\* serde_json::from_value::<ArgumentSpec>: the error of the first malformed entry
\* in key order, or "" when every entry deserializes.
ArgumentSpecError(spec) ==
    LET keys == MemberOrder(spec)
        bad == {k \in 1..Len(keys) : ArgumentError(spec.fields[keys[k]]) # ""}
    IN IF bad = {} THEN ""
       ELSE ArgumentError(spec.fields[keys[CHOOSE k \in bad : \A j \in bad : k <= j]])

DeserializeArgumentSpec(spec) ==
    [a \in DOMAIN spec.fields |-> DeserializeArgument(spec.fields[a])]

\* FailJson as fail_json prints it.
FailJson(msg) == [msg |-> msg, changed |-> FALSE, failed |-> TRUE]

(***************************************************************************)
(* InternalArgs: the '_ansible_*' members of the input document            *)
(***************************************************************************)
InternalFieldType(name) ==
    CASE name \in {"_ansible_no_log", "_ansible_debug", "_ansible_check_mode",
                   "_ansible_diff", "_ansible_ignore_unknown_opts",
                   "_ansible_keep_remote_files"} -> "bool"
      [] name = "_ansible_verbosity" -> "u8"
      [] name \in {"_ansible_socket", "_ansible_target_log_info",
                   "_ansible_string_conversion_action", "_ansible_version",
                   "_ansible_module_name", "_ansible_syslog_facility",
                   "_ansible_shell_executable", "_ansible_tmpdir",
                   "_ansible_remote_tmp"} -> "Option<String>"
      [] name = "_ansible_selinux_special_fs" -> "Vec<String>"
      [] OTHER -> "ignored"

U8_MAX == 255

InternalFieldParses(type, val) ==
    CASE type = "bool" -> is_boolean(val)
      [] type = "u8" -> is_u64(val) /\ val.i <= U8_MAX
      [] type = "Option<String>" -> is_string(val) \/ val.kind = "Null"
      [] type = "Vec<String>" -> is_array(val)
      [] OTHER -> TRUE

\* serde's description of a value it did not expect.
Unexpected(val) ==
    CASE val.kind = "Null" -> "null"
      [] val.kind = "Bool" -> "boolean '" \o DisplayValue(val) \o "'"
      [] val.kind = "String" -> "string " \o DisplayValue(val)
      [] val.kind = "Number" /\ val.n = "Float" -> "floating point '" \o DisplayValue(val) \o "'"
      [] val.kind = "Number" -> "integer '" \o DisplayValue(val) \o "'"
      [] val.kind = "Array" -> "sequence"
      [] val.kind = "Object" -> "map"

InternalFieldError(type, val) ==
    IF type = "u8" /\ is_i64(val)
    THEN "invalid value: " \o Unexpected(val) \o ", expected u8"
    ELSE "invalid type: " \o Unexpected(val) \o ", expected "
         \o (CASE type = "bool" -> "a boolean"
               [] type = "u8" -> "u8"
               [] type = "Option<String>" -> "a string"
               [] type = "Vec<String>" -> "a sequence")

\* parse_internal_args: the members are visited in key order and the first one
\* that does not deserialize is the error.
parse_internal_args(doc) ==
    LET keys == MemberOrder(doc)
        bad == {k \in 1..Len(keys) :
                  ~InternalFieldParses(InternalFieldType(keys[k]), doc.fields[keys[k]])}
    IN IF bad = {} THEN Ok([k \in {x \in DOMAIN doc.fields : InternalFieldType(x) # "ignored"}
                              |-> doc.fields[k]])
       ELSE LET key == keys[CHOOSE k \in bad : \A j \in bad : k <= j]
            IN Err("Could not parse input internal arguments JSON from input "
                   \o DisplayDocument(doc) \o ": "
                   \o InternalFieldError(InternalFieldType(key), doc.fields[key]))


(***************************************************************************)
(* Steps 1-5 of build: the constraint groups.  Each predicate is the       *)
(* condition under which the loop returns the rule's failure.              *)
(***************************************************************************)
\* The rules of a group (none when the setter was not called).
RulesOf(group) == IF IsSome(group) THEN Unwrap(group) ELSE <<>>

\* a variant that takes the last rule whose condition holds
FirstRuleLast(fails) ==
    LET bad == {k \in 1..Len(fails) : fails[k]}
    IN IF bad = {} THEN 0 ELSE CHOOSE k \in bad : \A j \in bad : k >= j

\* The first rule of a list whose condition holds (0: none); fails[k] is the
\* condition of rule k.
FirstRule(fails) ==
    LET bad == {k \in 1..Len(fails) : fails[k]}
    IN IF bad = {} THEN 0 ELSE CHOOSE k \in bad : \A j \in bad : k <= j

\* a variant that fails only when both names are present
MutuallyExclusiveFailsBoth(margs, rule) ==
    rule[1] \in DOMAIN margs /\ rule[2] \in DOMAIN margs

MutuallyExclusiveFails(margs, rule) ==
    rule[1] \in DOMAIN margs \/ rule[2] \in DOMAIN margs

MutuallyExclusiveMessage(rule) ==
    "Arguments '" \o rule[1] \o "' and '" \o rule[2] \o "' are mutually exclusive"

\* a variant that fails only when exactly one name is present
RequiredTogetherFailsExactlyOne(margs, rule) ==
    (rule[1] \in DOMAIN margs) # (rule[2] \in DOMAIN margs)

RequiredTogetherFails(margs, rule) ==
    ~(rule[1] \in DOMAIN margs /\ rule[2] \in DOMAIN margs)

RequiredTogetherMessage(rule) ==
    "Arguments '" \o rule[1] \o "' and '" \o rule[2] \o "' are required together"

\* a variant that fails unless both names are present
RequiredOneOfFailsUnlessBoth(margs, rule) ==
    ~(rule[1] \in DOMAIN margs /\ rule[2] \in DOMAIN margs)

RequiredOneOfFails(margs, rule) ==
    ~(rule[1] \in DOMAIN margs \/ rule[2] \in DOMAIN margs)

RequiredOneOfMessage(rule) ==
    "At least one of the arguments '" \o rule[1] \o "' and '" \o rule[2] \o "' must be present"

\* a variant that fires whatever the value of the key
RequiredIfFailsAnyValue(margs, rule) ==
    /\ rule[1] \in DOMAIN margs
    /\ IF rule[4]
       THEN ~(\E k \in 1..Len(rule[3]) : rule[3][k] \in DOMAIN margs)
       ELSE ~(\A k \in 1..Len(rule[3]) : rule[3][k] \in DOMAIN margs)

\* A rule is (key, value, args, any).
RequiredIfFails(margs, rule) ==
    /\ rule[1] \in DOMAIN margs
    /\ margs[rule[1]] = rule[2]
    /\ IF rule[4]
       THEN ~(\E k \in 1..Len(rule[3]) : rule[3][k] \in DOMAIN margs)
       ELSE ~(\A k \in 1..Len(rule[3]) : rule[3][k] \in DOMAIN margs)

RequiredIfMessage(rule) ==
    (IF rule[4] THEN "No arguments" ELSE "Not all arguments")
    \o " required by '" \o rule[1] \o "'='" \o DisplayValue(rule[2]) \o "' are present"

\* A rule is (key, args); both are looked up in the deserialized argument spec.
RequiredByFails(spec, rule) ==
    /\ rule[1] \in DOMAIN spec
    /\ ~(\A k \in 1..Len(rule[2]) : rule[2][k] \in DOMAIN spec)

RequiredByMessage(rule) ==
    "Arguments required by '" \o rule[1] \o "' '" \o DebugStringVec(rule[2]) \o "' are not present"

(***************************************************************************)
(* Step 6 of build: reconciliation of one declared argument, the missing   *)
(* arguments, the types and the unknown arguments                          *)
(***************************************************************************)
\* The argument is required and the input does not hold it.
RequiredAndAbsent(arg, name, margs) == arg.required /\ name \notin DOMAIN margs

\* a variant of the iteration that accepts every supplied value
ReconcileErrorNoChoices(arg, name, margs, env) ==
    IF /\ RequiredAndAbsent(arg, name, margs)
       /\ IsSome(arg.fallback)
       /\ env[Unwrap(arg.fallback)].state # "set"
    THEN "'" \o name \o "' is required but missing, tried fallback to "
         \o Unwrap(arg.fallback) \o " but got error: '"
         \o VarErrorText(env[Unwrap(arg.fallback)]) \o "'"
    ELSE ""

\* a variant of the iteration that does not return when the fallback fails
ReconcileErrorNoFallback(arg, name, margs, env) ==
    IF /\ name \in DOMAIN margs
       /\ IsSome(arg.choices)
       /\ ~Contains(Unwrap(arg.choices), margs[name])
    THEN "Argument '" \o name \o "' can only have '"
         \o DebugValueVec(Unwrap(arg.choices)) \o "' values"
    ELSE ""

\* a variant of the iteration that holds the default and the fallback value to
\* the choices as well
ReconcileErrorChoicesOnStored(arg, name, margs, env) ==
    IF /\ RequiredAndAbsent(arg, name, margs)
       /\ IsSome(arg.fallback)
       /\ env[Unwrap(arg.fallback)].state # "set"
    THEN "'" \o name \o "' is required but missing, tried fallback to "
         \o Unwrap(arg.fallback) \o " but got error: '"
         \o VarErrorText(env[Unwrap(arg.fallback)]) \o "'"
    ELSE IF /\ IsSome(arg.choices)
            /\ \/ name \in DOMAIN margs /\ ~Contains(Unwrap(arg.choices), margs[name])
               \/ /\ name \notin DOMAIN margs
                  /\ IsSome(arg.default)
                  /\ ~Contains(Unwrap(arg.choices), Unwrap(arg.default))
               \/ /\ RequiredAndAbsent(arg, name, margs)
                  /\ IsSome(arg.fallback)
                  /\ ~Contains(Unwrap(arg.choices), JString(env[Unwrap(arg.fallback)].val))
    THEN "Argument '" \o name \o "' can only have '"
         \o DebugValueVec(Unwrap(arg.choices)) \o "' values"
    ELSE ""

\* The failure one iteration of the loop returns ("" when it returns none).
ReconcileError(arg, name, margs, env) ==
    IF /\ RequiredAndAbsent(arg, name, margs)
       /\ IsSome(arg.fallback)
       /\ env[Unwrap(arg.fallback)].state # "set"
    THEN "'" \o name \o "' is required but missing, tried fallback to "
         \o Unwrap(arg.fallback) \o " but got error: '"
         \o VarErrorText(env[Unwrap(arg.fallback)]) \o "'"
    ELSE IF /\ name \in DOMAIN margs
            /\ IsSome(arg.choices)
            /\ ~Contains(Unwrap(arg.choices), margs[name])
    THEN "Argument '" \o name \o "' can only have '"
         \o DebugValueVec(Unwrap(arg.choices)) \o "' values"
    ELSE ""

\* a variant of the iteration that never stores the default
ReconcileInsertNoDefault(params, arg, name, margs, env) ==
    LET fell_back ==
            IF RequiredAndAbsent(arg, name, margs) /\ IsSome(arg.fallback)
            THEN Insert(params, name,
                        ArgumentValue(JString(env[Unwrap(arg.fallback)].val), arg.no_log))
            ELSE params
    IN IF name \in DOMAIN margs
       THEN Insert(fell_back, name, ArgumentValue(margs[name], arg.no_log))
       ELSE fell_back

\* a variant of the iteration that stores null for an absent argument without default
ReconcileInsertNullWhenAbsent(params, arg, name, margs, env) ==
    LET fell_back ==
            IF RequiredAndAbsent(arg, name, margs) /\ IsSome(arg.fallback)
            THEN Insert(params, name,
                        ArgumentValue(JString(env[Unwrap(arg.fallback)].val), arg.no_log))
            ELSE params
    IN IF name \in DOMAIN margs
       THEN Insert(fell_back, name, ArgumentValue(margs[name], arg.no_log))
       ELSE IF IsSome(arg.default)
       THEN Insert(fell_back, name, ArgumentValue(Unwrap(arg.default), arg.no_log))
       ELSE Insert(fell_back, name, ArgumentValue(JNull, arg.no_log))

\* a variant of the iteration that reads the text of the variable as a number
\* when it is one
ReconcileInsertParsedFallback(params, arg, name, margs, env) ==
    LET text == env[Unwrap(arg.fallback)].val
        fell_back ==
            IF RequiredAndAbsent(arg, name, margs) /\ IsSome(arg.fallback)
            THEN Insert(params, name,
                        ArgumentValue(IF text = "5" THEN JInt(5) ELSE JString(text),
                                      arg.no_log))
            ELSE params
    IN IF name \in DOMAIN margs
       THEN Insert(fell_back, name, ArgumentValue(margs[name], arg.no_log))
       ELSE IF IsSome(arg.default)
       THEN Insert(fell_back, name, ArgumentValue(Unwrap(arg.default), arg.no_log))
       ELSE fell_back

\* result_params after an iteration that returns no failure: the fallback value is
\* inserted first, then the supplied value or else the default.
ReconcileInsert(params, arg, name, margs, env) ==
    LET fell_back ==
            IF RequiredAndAbsent(arg, name, margs) /\ IsSome(arg.fallback)
            THEN Insert(params, name,
                        ArgumentValue(JString(env[Unwrap(arg.fallback)].val), arg.no_log))
            ELSE params
    IN IF name \in DOMAIN margs
       THEN Insert(fell_back, name, ArgumentValue(margs[name], arg.no_log))
       ELSE IF IsSome(arg.default)
       THEN Insert(fell_back, name, ArgumentValue(Unwrap(arg.default), arg.no_log))
       ELSE fell_back

\* a variant of the iteration that keeps only the last missing name
ReconcileMissingLastOnly(missing, arg, name, margs) ==
    IF RequiredAndAbsent(arg, name, margs) /\ ~IsSome(arg.fallback)
    THEN <<name>>
    ELSE missing

\* a variant of the iteration that reads the variable of every declared fallback
ReconcileReadsAlways(reads, arg, name, margs) ==
    IF IsSome(arg.fallback)
    THEN LET read == <<name, Unwrap(arg.fallback)>>
         IN Insert(reads, read, IF read \in DOMAIN reads THEN reads[read] + 1 ELSE 1)
    ELSE reads

\* The calls of env::var after an iteration: one more for this argument and its
\* variable when the argument is required, absent and declares a fallback.
ReconcileReads(reads, arg, name, margs) ==
    IF RequiredAndAbsent(arg, name, margs) /\ IsSome(arg.fallback)
    THEN LET read == <<name, Unwrap(arg.fallback)>>
         IN Insert(reads, read, IF read \in DOMAIN reads THEN reads[read] + 1 ELSE 1)
    ELSE reads

\* missing_required_args after an iteration.
ReconcileMissing(missing, arg, name, margs) ==
    IF RequiredAndAbsent(arg, name, margs) /\ ~IsSome(arg.fallback)
    THEN Append(missing, name)
    ELSE missing

MissingMessage(missing) == "missing required arguments: " \o DebugStringVec(missing)

\* The stored values the type loop rejects.
TypeMismatches(spec, params) ==
    {name \in DOMAIN params :
        name \in DOMAIN spec /\ ~check_type_correct(spec[name].value_type, params[name].value)}

TypeMessage(name, value_type, value) ==
    "'" \o name \o "' expected to be of type '" \o value_type \o "', but got "
    \o DisplayValue(value)

\* a variant of the comparison with the two maps exchanged
UnknownArgsExchanged(margs, params) == {key \in DOMAIN params : key \notin DOMAIN margs}

\* The keys of the candidate bucket that result_params does not hold.
UnknownArgs(margs, params) == {key \in DOMAIN margs : key \notin DOMAIN params}

UnknownMessage(unknown_args) ==
    "Unknown arguments for module found: '" \o DebugStringVec(unknown_args) \o "'"

InternalArgsMessage(doc, e) ==
    "Could not parse internal arguments from " \o DisplayDocument(doc) \o ": " \o e

AnsibleModule(params, internal_params) ==
    [params |-> params, internal_params |-> internal_params]


(***************************************************************************)
(* The builder: new, the setters and build                                 *)
(***************************************************************************)
\* The statements of build in program order; pc names the one to run next.
Phases == <<"parse_input", "argument_spec", "mutually_exclusive", "required_together",
            "required_one_of", "required_if", "required_by", "reconcile",
            "missing_required", "type_check", "unknown_args", "internal_args">>

PhaseIndex(phase) == CHOOSE k \in 1..Len(Phases) : Phases[k] = phase

\* (the unknown-argument check placed before the type check)
PhaseAfterUnknownFirst(phase) ==
    CASE phase = "missing_required" -> "unknown_args"
      [] phase = "unknown_args" -> "type_check"
      [] phase = "type_check" -> "internal_args"
      [] OTHER -> IF PhaseIndex(phase) = Len(Phases) THEN "done"
                  ELSE Phases[PhaseIndex(phase) + 1]

\* (the argument spec deserialized after the mutually-exclusive group)
PhaseAfterGroupFirst(phase) ==
    CASE phase = "parse_input" -> "mutually_exclusive"
      [] phase = "mutually_exclusive" -> "argument_spec"
      [] phase = "argument_spec" -> "required_together"
      [] OTHER -> IF PhaseIndex(phase) = Len(Phases) THEN "done"
                  ELSE Phases[PhaseIndex(phase) + 1]

\* Where control goes when a statement does not return.
PhaseAfter(phase) ==
    IF PhaseIndex(phase) = Len(Phases) THEN "done" ELSE Phases[PhaseIndex(phase) + 1]

\* AnsibleModuleBuilder::new: every group is None and nothing has run.
NewBuilder ==
    /\ mutually_exclusive = None
    /\ required_together = None
    /\ required_one_of = None
    /\ required_if = None
    /\ required_by = None
    /\ pc = "new"
    /\ input_json = JNull
    /\ module_args = EmptyMap
    /\ spec_args = EmptyMap
    /\ todo = {}
    /\ result_params = EmptyMap
    /\ missing_required_args = <<>>
    /\ outcome = None
    /\ stdout = <<>>
    /\ failed_at = ""
    /\ setter_calls = 0
    /\ calls = 0
    /\ first_outcome = None
    /\ exit_call = None
    /\ env_reads = EmptyMap
    /\ last_setter = None

\* return Err(..) / return Ok(..) from the statement `phase`
Return(phase, result) ==
    /\ outcome' = Some(result)
    /\ failed_at' = IF result.tag = "Err" THEN phase ELSE ""
    /\ pc' = "done"

\* the statement `phase` falls through to the next one
Continue(phase) ==
    /\ pc' = PhaseAfter(phase)
    /\ UNCHANGED <<outcome, failed_at>>

\* lines 144-157: the input file is read and parsed, the candidate bucket filled
ParseInput ==
    /\ pc \in {"new", "again"}
    /\ calls' = calls + 1
    /\ last_setter' = None
    /\ LET parsed == parse_input_json(all_input_args)
       IN IF parsed.tag = "Err"
          THEN /\ Return("parse_input", parsed)
               /\ UNCHANGED <<input_json, module_args>>
          ELSE /\ input_json' = parsed.val
               /\ module_args' = CandidateBucket(parsed.val)
               /\ Continue("parse_input")
    /\ UNCHANGED <<builder_fields, groups, environ, spec_args, todo, result_params,
                   missing_required_args, stdout, setter_calls, first_outcome,
                   exit_call, env_reads>>

\* lines 161-168: the argument spec is deserialized; a malformed entry ends the
\* process through fail_json
ParseArgumentSpec ==
    /\ pc = "argument_spec"
    /\ IF ~is_object(argument_spec)
       THEN /\ Return("argument_spec",
                      Err("Wrong argument spec format, must be a valid JSON object"))
            /\ UNCHANGED <<spec_args, todo, stdout>>
       ELSE IF ArgumentSpecError(argument_spec) # ""
       THEN /\ stdout' = Append(stdout, FailJson(ArgumentSpecError(argument_spec)))
            /\ pc' = "exited"
            /\ failed_at' = "argument_spec"
            /\ UNCHANGED <<spec_args, todo, outcome>>
       ELSE /\ spec_args' = DeserializeArgumentSpec(argument_spec)
            /\ todo' = DOMAIN argument_spec.fields
            /\ Continue("argument_spec")
            /\ UNCHANGED stdout
    /\ UNCHANGED <<builder_fields, groups, environ, input_json, module_args,
                   result_params, missing_required_args, history, env_reads>>

\* a loop over the rules of one group: the first failing rule returns its message
CheckGroup(phase, fails, messages) ==
    /\ pc = phase
    /\ IF FirstRule(fails) # 0
       THEN Return(phase, Err(messages[FirstRule(fails)]))
       ELSE Continue(phase)
    /\ UNCHANGED <<builder_fields, groups, environ, locals, stdout, history, env_reads>>

\* lines 170-177
CheckMutuallyExclusive ==
    LET rules == RulesOf(mutually_exclusive)
    IN CheckGroup("mutually_exclusive",
                  [k \in 1..Len(rules) |-> MutuallyExclusiveFails(module_args, rules[k])],
                  [k \in 1..Len(rules) |-> MutuallyExclusiveMessage(rules[k])])

\* lines 179-186
CheckRequiredTogether ==
    LET rules == RulesOf(required_together)
    IN CheckGroup("required_together",
                  [k \in 1..Len(rules) |-> RequiredTogetherFails(module_args, rules[k])],
                  [k \in 1..Len(rules) |-> RequiredTogetherMessage(rules[k])])

\* lines 188-197
CheckRequiredOneOf ==
    LET rules == RulesOf(required_one_of)
    IN CheckGroup("required_one_of",
                  [k \in 1..Len(rules) |-> RequiredOneOfFails(module_args, rules[k])],
                  [k \in 1..Len(rules) |-> RequiredOneOfMessage(rules[k])])

\* lines 199-227
CheckRequiredIf ==
    LET rules == RulesOf(required_if)
    IN CheckGroup("required_if",
                  [k \in 1..Len(rules) |-> RequiredIfFails(module_args, rules[k])],
                  [k \in 1..Len(rules) |-> RequiredIfMessage(rules[k])])

\* lines 229-243
CheckRequiredBy ==
    LET rules == RulesOf(required_by)
    IN CheckGroup("required_by",
                  [k \in 1..Len(rules) |-> RequiredByFails(spec_args, rules[k])],
                  [k \in 1..Len(rules) |-> RequiredByMessage(rules[k])])

\* lines 248-311: one iteration of the loop over the argument spec, on whichever
\* declared argument the HashMap yields next
ReconcileArgument ==
    /\ pc = "reconcile"
    /\ \E name \in todo :
          LET arg == spec_args[name]
              e == ReconcileError(arg, name, module_args, environ)
          IN /\ env_reads' = ReconcileReads(env_reads, arg, name, module_args)
             /\ IF e # ""
                THEN /\ Return("reconcile", Err(e))
                     /\ UNCHANGED <<todo, result_params, missing_required_args>>
                ELSE /\ result_params' =
                           ReconcileInsert(result_params, arg, name, module_args, environ)
                     /\ missing_required_args' =
                           ReconcileMissing(missing_required_args, arg, name, module_args)
                     /\ todo' = todo \ {name}
                     /\ UNCHANGED <<pc, outcome, failed_at>>
    /\ UNCHANGED <<builder_fields, groups, environ, input_json, module_args, spec_args,
                   stdout, history>>

\* the loop over the argument spec is exhausted
ReconcileDone ==
    /\ pc = "reconcile"
    /\ todo = {}
    /\ Continue("reconcile")
    /\ UNCHANGED <<builder_fields, groups, environ, locals, stdout, history, env_reads>>

\* lines 313-317
CheckMissingRequired ==
    /\ pc = "missing_required"
    /\ IF missing_required_args # <<>>
       THEN Return("missing_required", Err(MissingMessage(missing_required_args)))
       ELSE Continue("missing_required")
    /\ UNCHANGED <<builder_fields, groups, environ, locals, stdout, history, env_reads>>

\* lines 319-330: the loop returns at the first stored value of a wrong type; any
\* of them can be the first one the HashMap yields
CheckTypes ==
    /\ pc = "type_check"
    /\ IF TypeMismatches(spec_args, result_params) # {}
       THEN \E name \in TypeMismatches(spec_args, result_params) :
               Return("type_check", Err(TypeMessage(name, spec_args[name].value_type,
                                                    result_params[name].value)))
       ELSE Continue("type_check")
    /\ UNCHANGED <<builder_fields, groups, environ, locals, stdout, history, env_reads>>

\* lines 332-343: the unknown keys are collected in the order the HashMap yields
CheckUnknownArgs ==
    /\ pc = "unknown_args"
    /\ IF UnknownArgs(module_args, result_params) # {}
       THEN \E unknown_args \in Orders(UnknownArgs(module_args, result_params)) :
               Return("unknown_args", Err(UnknownMessage(unknown_args)))
       ELSE Continue("unknown_args")
    /\ UNCHANGED <<builder_fields, groups, environ, locals, stdout, history, env_reads>>

\* lines 345-357
ParseInternalArgs ==
    /\ pc = "internal_args"
    /\ LET parsed == parse_internal_args(input_json)
       IN IF parsed.tag = "Err"
          THEN Return("internal_args", Err(InternalArgsMessage(input_json, parsed.msg)))
          ELSE Return("internal_args", Ok(AnsibleModule(result_params, parsed.val)))
    /\ UNCHANGED <<builder_fields, groups, environ, locals, stdout, history, env_reads>>


(***************************************************************************)
(* Bounds                                                                  *)
(***************************************************************************)
\* setter calls made on one builder before build
MaxSetterCalls == 2
\* build calls made with the same spec, input, groups and environment
MaxCalls == 2

(***************************************************************************)
(* The setters (lines 117-140): each replaces its own group                *)
(***************************************************************************)
PairA == <<"api_url", "url">>
PairB == <<"login", "extra">>
PairLists == {<<PairA>>, <<PairB>>, <<PairB, PairA>>}

RequiredIfLists ==
    {<<<<"login", JBool(TRUE), <<"api_url", "url">>, any>>>> : any \in BOOLEAN}
    \cup {<<<<"login", JBool(FALSE), <<"url">>, TRUE>>,
            <<"login", JBool(TRUE), <<"api_url", "url">>, FALSE>>>>}

RequiredByLists ==
    {<<<<"login", <<"api_url", "url">>>>>>,
     <<<<"login", <<"user", "password">>>>>>,
     <<<<"url", <<"api_url">>>>, <<"api_url", <<"extra">>>>>>}

SetterGuard ==
    /\ pc = "new"
    /\ setter_calls < MaxSetterCalls
    /\ setter_calls' = setter_calls + 1

SetMutuallyExclusiveTo(lists) ==
    /\ SetterGuard
    /\ \E rules \in lists :
          /\ mutually_exclusive' = Some(rules)
          /\ last_setter' = Some(<<"mutually_exclusive", rules>>)
    /\ UNCHANGED <<builder_fields, required_together, required_one_of, required_if,
                   required_by, environ, pc, locals, outcome, stdout, failed_at,
                   calls, first_outcome, exit_call, env_reads>>

SetMutuallyExclusive == SetMutuallyExclusiveTo(PairLists)

SetRequiredTogetherTo(lists) ==
    /\ SetterGuard
    /\ \E rules \in lists :
          /\ required_together' = Some(rules)
          /\ last_setter' = Some(<<"required_together", rules>>)
    /\ UNCHANGED <<builder_fields, mutually_exclusive, required_one_of, required_if,
                   required_by, environ, pc, locals, outcome, stdout, failed_at,
                   calls, first_outcome, exit_call, env_reads>>

SetRequiredTogether == SetRequiredTogetherTo(PairLists)

\* a variant that adds the rules to the list the group already holds
SetRequiredOneOfAdding(lists) ==
    /\ SetterGuard
    /\ \E rules \in lists :
          /\ required_one_of' = Some(RulesOf(required_one_of) \o rules)
          /\ last_setter' = Some(<<"required_one_of", rules>>)
    /\ UNCHANGED <<builder_fields, mutually_exclusive, required_together, required_if,
                   required_by, environ, pc, locals, outcome, stdout, failed_at,
                   calls, first_outcome, exit_call, env_reads>>

SetRequiredOneOfTo(lists) ==
    /\ SetterGuard
    /\ \E rules \in lists :
          /\ required_one_of' = Some(rules)
          /\ last_setter' = Some(<<"required_one_of", rules>>)
    /\ UNCHANGED <<builder_fields, mutually_exclusive, required_together, required_if,
                   required_by, environ, pc, locals, outcome, stdout, failed_at,
                   calls, first_outcome, exit_call, env_reads>>

SetRequiredOneOf == SetRequiredOneOfTo(PairLists)

SetRequiredIfTo(lists) ==
    /\ SetterGuard
    /\ \E rules \in lists :
          /\ required_if' = Some(rules)
          /\ last_setter' = Some(<<"required_if", rules>>)
    /\ UNCHANGED <<builder_fields, mutually_exclusive, required_together, required_one_of,
                   required_by, environ, pc, locals, outcome, stdout, failed_at,
                   calls, first_outcome, exit_call, env_reads>>

SetRequiredIf == SetRequiredIfTo(RequiredIfLists)

SetRequiredByTo(lists) ==
    /\ SetterGuard
    /\ \E rules \in lists :
          /\ required_by' = Some(rules)
          /\ last_setter' = Some(<<"required_by", rules>>)
    /\ UNCHANGED <<builder_fields, mutually_exclusive, required_together, required_one_of,
                   required_if, environ, pc, locals, outcome, stdout, failed_at,
                   calls, first_outcome, exit_call, env_reads>>

SetRequiredBy == SetRequiredByTo(RequiredByLists)

\* A second builder is made from the same spec, input and groups, in the same
\* environment, and built.
Rebuild ==
    /\ pc = "done"
    /\ calls < MaxCalls
    /\ pc' = "again"
    /\ first_outcome' = IF calls = 1 THEN outcome ELSE first_outcome
    /\ input_json' = JNull
    /\ module_args' = EmptyMap
    /\ spec_args' = EmptyMap
    /\ todo' = {}
    /\ result_params' = EmptyMap
    /\ missing_required_args' = <<>>
    /\ outcome' = None
    /\ failed_at' = ""
    /\ env_reads' = EmptyMap
    /\ UNCHANGED <<builder_fields, groups, environ, stdout, setter_calls, calls, exit_call,
                   last_setter>>

(***************************************************************************)
(* AnsibleModule::exit_json                                                *)
(***************************************************************************)
NO_LOG_SENTINEL == "VALUE_SPECIFIED_IN_NO_LOG_PARAMETER"

\* lines 541-555: a field is replaced when params holds its name with no_log set
MaskResult(params, result) ==
    [k \in DOMAIN result |->
        IF k \in DOMAIN params
        THEN IF params[k].no_log THEN JString(NO_LOG_SENTINEL) ELSE result[k]
        ELSE result[k]]

\* lines 557-562: ExitJson serialized; the flattened result follows changed and
\* failed, in the key order of the BTreeMap
ExitJsonDocument(result, changed) ==
    LET order == MemberOrder(JObjectOf(result))
    IN <<<<"changed", JBool(changed)>>, <<"failed", JBool(FALSE)>>>>
       \o [k \in 1..Len(order) |-> <<order[k], result[order[k]]>>]

\* the result maps a caller passes: any of three fields with a string or a number
ExitResults ==
    UNION {[fields -> {JString("s3cret"), JInt(7)}] :
              fields \in SUBSET {"api_url", "url", "extra"}}

\* lines 539-576: the module built with success prints its document and exits
ExitJson ==
    /\ pc = "done"
    /\ Unwrap(outcome).tag = "Ok"
    /\ \E result \in ExitResults, changed \in BOOLEAN :
          /\ exit_call' = Some([result |-> result, changed |-> changed])
          /\ stdout' = Append(stdout,
                 ExitJsonDocument(MaskResult(Unwrap(outcome).val.params, result), changed))
    /\ pc' = "exited"
    /\ UNCHANGED <<builder_fields, groups, environ, locals, outcome, failed_at,
                   setter_calls, calls, first_outcome, env_reads, last_setter>>

(***************************************************************************)
(* Inputs                                                                  *)
(***************************************************************************)
FALLBACK_VAR == "TEST_API_URL"

\* the process arguments of a module run on a readable JSON file
RunOn(doc) == InputArgs(<<"module_name", "input.json">>, FileJson(doc))

\* the functions from a subset of keys to values: each key absent or one of vals[key]
Members(keys, vals) ==
    UNION {[present -> UNION {vals[k] : k \in present}] : present \in SUBSET keys}

Documents(keys, vals) ==
    {JObjectOf(f) : f \in {g \in Members(keys, vals) : \A k \in DOMAIN g : g[k] \in vals[k]}}

Scenario(spec, input, env) == [spec |-> spec, input |-> input, env |-> env]

InitFrom(scenarios) ==
    /\ \E sc \in scenarios :
          /\ argument_spec = sc.spec
          /\ all_input_args = sc.input
          /\ environ = sc.env
    /\ NewBuilder


\* spec entries (no_log false)
Arg(type, required, default, fallback, choices) ==
    RawArgument(Some(type), required, FALSE, default, fallback, choices)

HostChoices == <<JString("localhost"), JString("127.0.0.1")>>

EnvOf(state) == [v \in {FALLBACK_VAR} |-> state]
EnvUnset == EnvOf(EnvNotPresent)
EnvHello == EnvOf(EnvSet("Hello"))

\* Scenarios of the builder's life: three declared arguments, a few shapes of
\* api_url and url, inputs that hold or lack every key, the fallback variable unset.
BuilderSpec(a, u) ==
    JObjectOf([k \in {"api_url", "url", "login"} |->
        CASE k = "api_url" -> a
          [] k = "url" -> u
          [] k = "login" -> Arg("bool", FALSE, None, None, None)])

BuilderSpecs ==
    {BuilderSpec(a, Arg("str", FALSE, None, None, None)) :
        a \in {Arg("str", TRUE, None, None, None),
               Arg("str", TRUE, None, Some(FALLBACK_VAR), None),
               Arg("str", FALSE, None, None, Some(HostChoices)),
               Arg("uint", FALSE, Some(JInt(123)), None, None)}}
    \cup {BuilderSpec(a, Arg("str", TRUE, None, None, None)) :
            a \in {Arg("uint", FALSE, Some(JInt(123)), None, None),
                   Arg("str", FALSE, None, None, Some(HostChoices))}}

BuilderInputs ==
    Documents({"api_url", "url", "login", "extra"},
              [k \in {"api_url", "url", "login", "extra"} |->
                  CASE k = "api_url" -> {JString("localhost"), JInt(-1)}
                    [] k = "url" -> {JString("x")}
                    [] k = "login" -> {JBool(TRUE)}
                    [] k = "extra" -> {JString("x")}])

\* an internal member beside a supplied required argument
BuilderInternalInputs ==
    Documents({"api_url", "_ansible_verbosity"},
              [k \in {"api_url", "_ansible_verbosity"} |->
                  IF k = "api_url" THEN {JString("localhost")} ELSE {JInt(3), JInt(300)}])

\* inputs for the spec whose api_url falls back to a variable that is set
BuilderFallbackInputs ==
    Documents({"api_url", "login"},
              [k \in {"api_url", "login"} |->
                  IF k = "api_url" THEN {JString("localhost")} ELSE {JBool(TRUE)}])

BuilderScenarios ==
    {Scenario(spec, RunOn(doc), EnvUnset) : spec \in BuilderSpecs, doc \in BuilderInputs}
    \cup {Scenario(BuilderSpec(Arg("str", TRUE, None, Some(FALLBACK_VAR), None),
                               Arg("str", FALSE, None, None, None)),
                   RunOn(doc), EnvHello) : doc \in BuilderFallbackInputs}
    \cup {Scenario(BuilderSpec(Arg("str", TRUE, None, None, None),
                               Arg("str", FALSE, None, None, None)),
                   RunOn(doc), EnvUnset) : doc \in BuilderInternalInputs}

Init == InitFrom(BuilderScenarios)

Build ==
    \/ ParseInput
    \/ ParseArgumentSpec
    \/ CheckMutuallyExclusive
    \/ CheckRequiredTogether
    \/ CheckRequiredOneOf
    \/ CheckRequiredIf
    \/ CheckRequiredBy
    \/ ReconcileArgument
    \/ ReconcileDone
    \/ CheckMissingRequired
    \/ CheckTypes
    \/ CheckUnknownArgs
    \/ ParseInternalArgs

Next ==
    \/ SetMutuallyExclusive
    \/ SetRequiredTogether
    \/ SetRequiredOneOf
    \/ SetRequiredIf
    \/ SetRequiredBy
    \/ Build

Spec == Init /\ [][Next]_vars


(***************************************************************************)
(* Scenarios of build alone (no group is set)                              *)
(***************************************************************************)
EnvFive == EnvOf(EnvSet("5"))
EnvBad == EnvOf(EnvNotUnicode("\"\\xFF\""))

SampleValues ==
    {JNull, JBool(TRUE), JString("localhost"), JInt(-1), JInt(123), JFloat("1.5"),
     JArray, JObject}

\* two declared arguments: every shape of api_url over three types, three shapes
\* of url; inputs with two undeclared keys
ReconcileSpecs ==
    {JObjectOf([k \in {"api_url", "url"} |-> IF k = "api_url" THEN a ELSE u]) :
        a \in {Arg(type, required, default, fallback, choices) :
                 type \in {"str", "int", "uint"},
                 required \in BOOLEAN,
                 default \in {None, Some(JString("d")), Some(JInt(123))},
                 fallback \in {None, Some(FALLBACK_VAR)},
                 choices \in {None, Some(HostChoices)}},
        u \in {Arg("str", FALSE, None, None, None),
               Arg("str", TRUE, None, None, None),
               Arg("str", TRUE, None, Some(FALLBACK_VAR), None)}}

ReconcileInputs ==
    Documents({"api_url", "url", "login", "extra"},
              [k \in {"api_url", "url", "login", "extra"} |->
                  CASE k = "api_url" -> {JString("localhost"), JString("192.0.2.1"),
                                         JInt(-1), JInt(5)}
                    [] k = "url" -> {JString("x")}
                    [] k = "login" -> {JBool(TRUE)}
                    [] k = "extra" -> {JString("x")}])

ReconcileScenarios ==
    {Scenario(spec, RunOn(doc), env) :
        spec \in ReconcileSpecs, doc \in ReconcileInputs,
        env \in {EnvUnset, EnvHello, EnvBad}}

\* one declared argument of every type against every sample value, supplied,
\* defaulted or taken from the environment
TypeScenarios ==
    {Scenario(JObjectOf([k \in {"api_url"} |->
                  Arg(ArgumentTypeName(type), required, default, fallback, None)]),
              RunOn(doc), env) :
        type \in ArgumentTypes,
        required \in BOOLEAN,
        default \in {None} \cup {Some(v) : v \in SampleValues},
        fallback \in {None, Some(FALLBACK_VAR)},
        doc \in Documents({"api_url"}, [k \in {"api_url"} |-> SampleValues]),
        env \in {EnvUnset, EnvFive}}

\* internal members beside the candidate keys
InternalScenarios ==
    {Scenario(JObjectOf([k \in {"api_url"} |-> Arg("str", required, None, None, None)]),
              RunOn(doc), EnvUnset) :
        required \in BOOLEAN,
        doc \in Documents({"api_url", "extra", "_ansible_verbosity"},
                          [k \in {"api_url", "extra", "_ansible_verbosity"} |->
                              CASE k = "api_url" -> {JString("localhost"), JInt(-1)}
                                [] k = "extra" -> {JString("x")}
                                [] k = "_ansible_verbosity" ->
                                      {JInt(0), JInt(300), JString("3")}])}

InitBuild == InitFrom(ReconcileScenarios \cup TypeScenarios \cup InternalScenarios)

SpecBuild == InitBuild /\ [][Build]_vars

(***************************************************************************)
(* Scenarios of two builds from the same inputs                            *)
(***************************************************************************)
TwiceSpecs ==
    {JObjectOf([k \in {"api_url", "url"} |-> IF k = "api_url" THEN a ELSE u]) :
        a \in {Arg("str", TRUE, None, None, None), Arg("uint", FALSE, None, None, None)},
        u \in {Arg("str", TRUE, None, None, None), Arg("uint", FALSE, None, None, None)}}

TwiceInputs ==
    Documents({"api_url", "url", "login", "extra"},
              [k \in {"api_url", "url", "login", "extra"} |->
                  CASE k = "api_url" -> {JInt(-1)}
                    [] k = "url" -> {JInt(-1)}
                    [] k = "login" -> {JBool(TRUE)}
                    [] k = "extra" -> {JString("x")}])

InitTwice ==
    InitFrom({Scenario(spec, RunOn(doc), EnvUnset) : spec \in TwiceSpecs, doc \in TwiceInputs})

NextTwice == Build \/ Rebuild

SpecTwice == InitTwice /\ [][NextTwice]_vars


(***************************************************************************)
(* What a finished build is compared with: the builder's inputs            *)
(***************************************************************************)
Done == pc = "done"
Failed == Done /\ Unwrap(outcome).tag = "Err"
Succeeded == Done /\ Unwrap(outcome).tag = "Ok"
Message == Unwrap(outcome).msg
Params == Unwrap(outcome).val.params

\* the input file holds a JSON object and every entry of the spec deserializes
WellFormed ==
    /\ parse_input_json(all_input_args).tag = "Ok"
    /\ is_object(argument_spec)
    /\ ArgumentSpecError(argument_spec) = ""

Candidates == CandidateBucket(all_input_args.file.value)
Declared == DeserializeArgumentSpec(argument_spec)

\* the arguments recorded missing: required, not supplied, no fallback declared
MissingNames ==
    {name \in DOMAIN Declared :
        /\ Declared[name].required
        /\ name \notin DOMAIN Candidates
        /\ ~IsSome(Declared[name].fallback)}

\* the arguments whose fallback variable cannot be read
FallbackFailures ==
    {name \in DOMAIN Declared :
        /\ Declared[name].required
        /\ name \notin DOMAIN Candidates
        /\ IsSome(Declared[name].fallback)
        /\ environ[Unwrap(Declared[name].fallback)].state # "set"}

\* the arguments whose fallback variable is read with success
FallbackResolved ==
    {name \in DOMAIN Declared :
        /\ Declared[name].required
        /\ name \notin DOMAIN Candidates
        /\ IsSome(Declared[name].fallback)
        /\ environ[Unwrap(Declared[name].fallback)].state = "set"}

\* the supplied values that are outside the declared choices
ChoiceFailures ==
    {name \in DOMAIN Declared \cap DOMAIN Candidates :
        /\ IsSome(Declared[name].choices)
        /\ \A k \in 1..Len(Unwrap(Declared[name].choices)) :
              Unwrap(Declared[name].choices)[k] # Candidates[name]}

\* the value build stores for a declared argument when reconciliation ends
\* without a failure (None: the argument is left out)
Stored(name) ==
    IF name \in DOMAIN Candidates THEN Some(Candidates[name])
    ELSE IF IsSome(Declared[name].default) THEN Declared[name].default
    ELSE IF name \in FallbackResolved
    THEN Some(JString(environ[Unwrap(Declared[name].fallback)].val))
    ELSE None

\* the type predicates as the specification words them: boolean, string,
\* floating-point, signed integer, unsigned integer, array, object
HasType(t, v) ==
    CASE t = "Bool" -> v \in {JBool(TRUE), JBool(FALSE)}
      [] t = "Str" -> v.kind = "String"
      [] t = "Float" -> v.kind = "Number" /\ v.n = "Float"
      [] t = "Int" -> v.kind = "Number" /\ v.n # "Float"
      [] t = "Uint" -> v.kind = "Number" /\ v.n # "Float" /\ v.i >= 0
      [] t = "List" -> v.kind = "Array"
      [] t = "Dict" -> v.kind = "Object"

\* the declared arguments whose stored value is not of the declared type
IllTyped ==
    {name \in DOMAIN Declared :
        IsSome(Stored(name)) /\ ~HasType(Declared[name].value_type, Unwrap(Stored(name)))}

\* the candidate keys the spec does not declare
UndeclaredKeys == DOMAIN Candidates \ DOMAIN Declared

GroupViolated(group, Fails(_)) ==
    IsSome(group) /\ \E k \in 1..Len(Unwrap(group)) : Fails(Unwrap(group)[k])

\* the phase has a rule that the inputs violate
Violated(phase) ==
    CASE phase = "mutually_exclusive" ->
            GroupViolated(mutually_exclusive, LAMBDA r : MutuallyExclusiveFails(Candidates, r))
      [] phase = "required_together" ->
            GroupViolated(required_together, LAMBDA r : RequiredTogetherFails(Candidates, r))
      [] phase = "required_one_of" ->
            GroupViolated(required_one_of, LAMBDA r : RequiredOneOfFails(Candidates, r))
      [] phase = "required_if" ->
            GroupViolated(required_if, LAMBDA r : RequiredIfFails(Candidates, r))
      [] phase = "required_by" ->
            GroupViolated(required_by, LAMBDA r : RequiredByFails(Declared, r))
      [] phase = "reconcile" -> FallbackFailures # {} \/ ChoiceFailures # {}
      [] phase = "missing_required" -> MissingNames # {}
      [] phase = "type_check" -> IllTyped # {}
      [] phase = "unknown_args" -> UndeclaredKeys # {}
      [] OTHER -> FALSE

\* the validation phases in the order the specification gives them
ValidationPhases ==
    <<"mutually_exclusive", "required_together", "required_one_of", "required_if",
      "required_by", "reconcile", "missing_required", "type_check", "unknown_args">>

ViolatedPhases == {k \in 1..Len(ValidationPhases) : Violated(ValidationPhases[k])}

EarliestViolated ==
    ValidationPhases[CHOOSE k \in ViolatedPhases : \A j \in ViolatedPhases : k <= j]

\* the first rule in list order that the inputs violate
FirstViolatedRule(group, Fails(_)) ==
    Unwrap(group)[CHOOSE k \in 1..Len(Unwrap(group)) :
                     /\ Fails(Unwrap(group)[k])
                     /\ \A j \in 1..(k - 1) : ~Fails(Unwrap(group)[j])]

\* the messages a failure of the phase can carry for these inputs
PhaseMessages(phase) ==
    CASE phase = "mutually_exclusive" ->
            {MutuallyExclusiveMessage(FirstViolatedRule(mutually_exclusive,
                LAMBDA r : MutuallyExclusiveFails(Candidates, r)))}
      [] phase = "required_together" ->
            {RequiredTogetherMessage(FirstViolatedRule(required_together,
                LAMBDA r : RequiredTogetherFails(Candidates, r)))}
      [] phase = "required_one_of" ->
            {RequiredOneOfMessage(FirstViolatedRule(required_one_of,
                LAMBDA r : RequiredOneOfFails(Candidates, r)))}
      [] phase = "required_if" ->
            {RequiredIfMessage(FirstViolatedRule(required_if,
                LAMBDA r : RequiredIfFails(Candidates, r)))}
      [] phase = "required_by" ->
            {RequiredByMessage(FirstViolatedRule(required_by,
                LAMBDA r : RequiredByFails(Declared, r)))}
      [] phase = "reconcile" ->
            {ReconcileError(Declared[name], name, Candidates, environ) :
                name \in FallbackFailures \cup ChoiceFailures}
      [] phase = "missing_required" ->
            {MissingMessage(names) : names \in Orders(MissingNames)}
      [] phase = "type_check" ->
            {TypeMessage(name, Declared[name].value_type, Unwrap(Stored(name))) :
                name \in IllTyped}
      [] phase = "unknown_args" ->
            {UnknownMessage(names) : names \in Orders(UndeclaredKeys)}

(***************************************************************************)
(* C1: the validation phases run in the order mutually-exclusive,          *)
(* required-together, required-one-of, required-if, required-by,           *)
(* reconciliation, missing-required, type check, unknown arguments: a      *)
(* build whose inputs violate rules of one or more phases returns the      *)
(* failure of the earliest violated phase with a message of that phase,    *)
(* and a build whose inputs violate none returns no validation failure.    *)
(***************************************************************************)
PhaseOrder ==
    (Done /\ WellFormed) =>
        IF ViolatedPhases = {}
        THEN failed_at \in {"", "internal_args"}
        ELSE /\ Failed
             /\ failed_at = EarliestViolated
             /\ Message \in PhaseMessages(EarliestViolated)

\* a required-together failure is returned although the inputs also violate the
\* required-by rule, hold an ill-typed value and hold an undeclared key
PhaseOrderWitness ==
    /\ Done /\ WellFormed
    /\ failed_at = "required_together"
    /\ Violated("required_by")
    /\ Violated("type_check")
    /\ Violated("unknown_args")


(***************************************************************************)
(* C2: determinism of build.  Two builds from the same argument spec, the  *)
(* same input, the same groups and the same environment return identical   *)
(* outcomes: the same normalized mapping, or the same message with the     *)
(* same names in the same order.                                           *)
(***************************************************************************)
Determinism ==
    (Done /\ calls = MaxCalls /\ IsSome(first_outcome)) => outcome = first_outcome

(***************************************************************************)
(* C3 as the specification states it: when every required argument is     *)
(* supplied with a value of its declared type and no constraint group is   *)
(* violated, build succeeds and the normalized mapping holds exactly the   *)
(* declared arguments that were supplied, defaulted or fallback-resolved.  *)
(***************************************************************************)
RequiredSupplied ==
    \A name \in DOMAIN Declared :
        Declared[name].required =>
            /\ name \in DOMAIN Candidates
            /\ HasType(Declared[name].value_type, Candidates[name])

NoGroupViolated ==
    \A phase \in {"mutually_exclusive", "required_together", "required_one_of",
                  "required_if", "required_by"} : ~Violated(phase)

StoredNames == {name \in DOMAIN Declared : IsSome(Stored(name))}

SuccessWhenRequiredSupplied ==
    (Done /\ WellFormed /\ RequiredSupplied /\ NoGroupViolated) =>
        (Succeeded /\ DOMAIN Params = StoredNames)

(***************************************************************************)
(* C3 amended: when moreover every supplied value and every default that   *)
(* is stored has the declared type, every supplied value lies within the   *)
(* declared choices, the input holds no undeclared candidate key and its   *)
(* internal members parse, build succeeds and the normalized mapping holds *)
(* exactly the declared arguments that were supplied, defaulted or         *)
(* fallback-resolved.                                                      *)
(***************************************************************************)
InternalsParse == parse_internal_args(all_input_args.file.value).tag = "Ok"

SuccessWhenAllAcceptable ==
    (/\ Done /\ WellFormed /\ RequiredSupplied /\ NoGroupViolated
     /\ IllTyped = {} /\ ChoiceFailures = {} /\ UndeclaredKeys = {} /\ InternalsParse) =>
        (Succeeded /\ DOMAIN Params = StoredNames)

\* a success with a group set, a required argument supplied, a second one
\* defaulted and a third one absent from the mapping
SuccessWitness ==
    /\ Succeeded /\ RequiredSupplied
    /\ IsSome(required_one_of)
    /\ \E name \in DOMAIN Declared : Declared[name].required
    /\ \E name \in DOMAIN Params : name \notin DOMAIN Candidates
    /\ DOMAIN Params # DOMAIN Declared

(***************************************************************************)
(* C4: unknown-key detection.  When the input holds a candidate key that   *)
(* the spec does not declare, build never succeeds; unless an earlier      *)
(* phase failed, it fails with "Unknown arguments for module found:        *)
(* '<names>'" where <names> lists exactly the undeclared candidate keys.   *)
(***************************************************************************)
BeforeUnknown ==
    {"mutually_exclusive", "required_together", "required_one_of", "required_if",
     "required_by", "reconcile", "missing_required", "type_check"}

UnknownKeyDetection ==
    (Done /\ WellFormed /\ UndeclaredKeys # {}) =>
        /\ Failed
        /\ failed_at \notin BeforeUnknown =>
              /\ failed_at = "unknown_args"
              /\ \E names \in Orders(UndeclaredKeys) :
                    Message = "Unknown arguments for module found: '"
                              \o DebugStringVec(names) \o "'"

\* the failure names two undeclared keys and no declared one
UnknownKeyWitness ==
    /\ Done /\ failed_at = "unknown_args"
    /\ UndeclaredKeys = {"login", "extra"}
    /\ DOMAIN Candidates \cap DOMAIN Declared # {}

(***************************************************************************)
(* C5: missing-required check.  When some declared argument is required,   *)
(* not supplied and not resolved by fallback, and no earlier step failed,  *)
(* build fails with "missing required arguments: [<names>]" where <names>  *)
(* lists every such argument once and no other argument.                   *)
(***************************************************************************)
Unresolved ==
    {name \in DOMAIN Declared :
        /\ Declared[name].required
        /\ name \notin DOMAIN Candidates
        /\ name \notin FallbackResolved}

BeforeMissing ==
    {"mutually_exclusive", "required_together", "required_one_of", "required_if",
     "required_by", "reconcile"}

MissingRequiredCheck ==
    (Done /\ WellFormed /\ Unresolved # {} /\ failed_at \notin BeforeMissing) =>
        /\ Failed
        /\ failed_at = "missing_required"
        /\ \E names \in Orders(Unresolved) :
              Message = "missing required arguments: " \o DebugStringVec(names)

\* both declared arguments are missing while the input holds other keys
MissingRequiredWitness ==
    /\ Done /\ failed_at = "missing_required"
    /\ Unresolved = {"api_url", "url"}
    /\ DOMAIN Candidates # {}

(***************************************************************************)
(* C6: type check.  Every stored value (supplied, default or fallback) is  *)
(* checked against the declared type of its argument: if one is of a wrong *)
(* type and no earlier phase failed, build fails with "'<name>' expected   *)
(* to be of type '<Type>', but got <value>" for such a value (a negative   *)
(* integer for an unsigned argument is one); on success every value of the *)
(* normalized mapping has the declared type of its argument.               *)
(***************************************************************************)
BeforeTypes ==
    {"mutually_exclusive", "required_together", "required_one_of", "required_if",
     "required_by", "reconcile", "missing_required"}

TypeCheck ==
    /\ (Done /\ WellFormed /\ IllTyped # {} /\ failed_at \notin BeforeTypes) =>
          /\ Failed
          /\ failed_at = "type_check"
          /\ \E name \in IllTyped :
                Message = "'" \o name \o "' expected to be of type '"
                          \o Declared[name].value_type \o "', but got "
                          \o DisplayValue(Unwrap(Stored(name)))
    /\ Succeeded =>
          \A name \in DOMAIN Params :
             /\ name \in DOMAIN Declared
             /\ HasType(Declared[name].value_type, Params[name].value)

\* -1 supplied for an unsigned argument is rejected by the type check
TypeCheckWitness ==
    /\ Done /\ failed_at = "type_check"
    /\ Declared["api_url"].value_type = "Uint"
    /\ "api_url" \in DOMAIN Candidates
    /\ Candidates["api_url"] = JInt(-1)
    /\ Message = "'api_url' expected to be of type 'Uint', but got -1"

(***************************************************************************)
(* C7: choices.  A supplied value of an argument that declares choices is  *)
(* stored when it equals one of the choices; when it equals none, build    *)
(* fails, and unless a group or another argument's fallback failed first   *)
(* the message is "Argument '<name>' can only have '<choices>' values"; a  *)
(* supplied value outside the choices is never in a success mapping.       *)
(***************************************************************************)
GroupPhases ==
    {"mutually_exclusive", "required_together", "required_one_of", "required_if",
     "required_by"}

WithChoices ==
    {name \in DOMAIN Declared \cap DOMAIN Candidates : IsSome(Declared[name].choices)}

Choices ==
    /\ (Done /\ WellFormed /\ ChoiceFailures # {}) =>
          /\ Failed
          /\ (failed_at \notin GroupPhases /\ FallbackFailures = {}) =>
                /\ failed_at = "reconcile"
                /\ \E name \in ChoiceFailures :
                      Message = "Argument '" \o name \o "' can only have '"
                                \o DebugValueVec(Unwrap(Declared[name].choices))
                                \o "' values"
    /\ (WellFormed /\ pc \in {"reconcile", "missing_required", "type_check",
                              "unknown_args", "internal_args"}) =>
          \A name \in (WithChoices \ ChoiceFailures) \ todo :
             /\ name \in DOMAIN result_params
             /\ result_params[name].value = Candidates[name]
    /\ Succeeded =>
          \A name \in WithChoices :
             /\ name \notin ChoiceFailures
             /\ Params[name].value = Candidates[name]

\* "192.0.2.1" is supplied for an argument whose choices are localhost and 127.0.0.1
ChoicesWitness ==
    /\ Done /\ failed_at = "reconcile"
    /\ ChoiceFailures = {"api_url"}
    /\ Candidates["api_url"] = JString("192.0.2.1")
    /\ Message = "Argument 'api_url' can only have "
                 \o "'[String(\"localhost\"), String(\"127.0.0.1\")]' values"

\* a supplied choice is stored and build succeeds
ChoicesStoredWitness ==
    /\ Succeeded
    /\ WithChoices = {"api_url"}
    /\ Params["api_url"].value = JString("localhost")

(***************************************************************************)
(* C8: fallback success and default precedence.  When a required argument  *)
(* is not supplied, declares a fallback variable and the variable is set,  *)
(* the normalized value of the argument is the variable's value, also when *)
(* the argument declares a default.                                        *)
(***************************************************************************)
FallbackPrecedence ==
    Succeeded =>
        \A name \in FallbackResolved :
           /\ name \in DOMAIN Params
           /\ Params[name].value = JString(environ[Unwrap(Declared[name].fallback)].val)

(***************************************************************************)
(* C9 as the specification states it: when a required argument is not      *)
(* supplied and its fallback variable cannot be read, the name is recorded *)
(* as missing and the outcome is the aggregate "missing required           *)
(* arguments: [<names>]" failure that lists it with every other missing    *)
(* required argument.                                                      *)
(***************************************************************************)
FallbackFailureRecorded ==
    (Done /\ WellFormed /\ FallbackFailures # {} /\ failed_at \notin GroupPhases) =>
        /\ Failed
        /\ failed_at = "missing_required"
        /\ \E names \in Orders(FallbackFailures \cup MissingNames) :
              Message = "missing required arguments: " \o DebugStringVec(names)

(***************************************************************************)
(* C9 amended: a fallback failure is raised, not recorded.  When a         *)
(* required argument is not supplied and its fallback variable cannot be   *)
(* read, its name is never recorded as missing and, unless a constraint    *)
(* group failed first, build fails during reconciliation with the fallback *)
(* message of such an argument or with the choices message of an argument  *)
(* reconciled before it, never with the aggregate missing message.         *)
(***************************************************************************)
FallbackFailureRaised ==
    /\ (WellFormed /\ pc \notin {"new", "again", "argument_spec"}) =>
          \A name \in FallbackFailures : ~Contains(missing_required_args, name)
    /\ (Done /\ WellFormed /\ FallbackFailures # {} /\ failed_at \notin GroupPhases) =>
          /\ Failed
          /\ failed_at = "reconcile"
          /\ \/ \E name \in FallbackFailures :
                   Message = "'" \o name \o "' is required but missing, tried fallback to "
                             \o Unwrap(Declared[name].fallback) \o " but got error: '"
                             \o VarErrorText(environ[Unwrap(Declared[name].fallback)])
                             \o "'"
             \/ \E name \in ChoiceFailures :
                   Message = "Argument '" \o name \o "' can only have '"
                             \o DebugValueVec(Unwrap(Declared[name].choices))
                             \o "' values"

\* the fallback of api_url fails while url is missing without a fallback, so
\* that an aggregate message would have two names to list
FallbackFailureWitness ==
    /\ Done /\ failed_at = "reconcile"
    /\ FallbackFailures = {"api_url"}
    /\ MissingNames = {"url"}
    /\ environ[FALLBACK_VAR].state = "not_unicode"

(***************************************************************************)
(* C10: fallback failure message.  When a required argument <name> is not  *)
(* supplied and its fallback variable <var> is not set, build fails with   *)
(* "'<name>' is required but missing, tried fallback to <var> but got      *)
(* error: 'environment variable not found'", unless a constraint group or  *)
(* the choices of another argument failed first.                           *)
(***************************************************************************)
FallbackUnset ==
    {name \in FallbackFailures :
        environ[Unwrap(Declared[name].fallback)].state = "not_present"}

FallbackFailureMessage ==
    (/\ Done /\ WellFormed /\ FallbackUnset # {} /\ FallbackFailures = FallbackUnset
     /\ ChoiceFailures = {} /\ failed_at \notin GroupPhases) =>
        /\ Failed
        /\ \E name \in FallbackUnset :
              Message = "'" \o name \o "' is required but missing, tried fallback to "
                        \o Unwrap(Declared[name].fallback)
                        \o " but got error: 'environment variable not found'"

\* the message of the repository's test check_fallback_fail
FallbackFailureMessageWitness ==
    /\ Done
    /\ FallbackUnset = {"api_url"}
    /\ Message = "'api_url' is required but missing, tried fallback to TEST_API_URL "
                 \o "but got error: 'environment variable not found'"

(***************************************************************************)
(* Constraint groups as the claims word them                               *)
(***************************************************************************)
Present(name) == name \in DOMAIN Candidates

\* the least element of a nonempty set of rule positions
Least(hits) == CHOOSE k \in hits : \A j \in hits : k <= j

(***************************************************************************)
(* C11: mutually-exclusive has either-present semantics.  For the pairs    *)
(* (A, B) in list order, build fails with "Arguments '<A>' and '<B>' are   *)
(* mutually exclusive" for the first pair of which the candidate bucket    *)
(* holds A or holds B; the group passes only when it holds neither name of *)
(* any pair.                                                               *)
(***************************************************************************)
MutuallyExclusiveEitherPresent ==
    (Done /\ WellFormed) =>
        LET pairs == RulesOf(mutually_exclusive)
            hits == {k \in 1..Len(pairs) : Present(pairs[k][1]) \/ Present(pairs[k][2])}
        IN IF hits = {}
           THEN failed_at # "mutually_exclusive"
           ELSE /\ Failed
                /\ failed_at = "mutually_exclusive"
                /\ Message = "Arguments '" \o pairs[Least(hits)][1] \o "' and '"
                             \o pairs[Least(hits)][2] \o "' are mutually exclusive"

\* only api_url of the second pair is supplied, and the second pair is reported
MutuallyExclusiveWitness ==
    /\ Done /\ failed_at = "mutually_exclusive"
    /\ mutually_exclusive = Some(<<PairB, PairA>>)
    /\ DOMAIN Candidates = {"api_url"}
    /\ Message = "Arguments 'api_url' and 'url' are mutually exclusive"

(***************************************************************************)
(* C12: required-together rejects unless both are present.  Unless the     *)
(* mutually-exclusive group failed first, build fails with "Arguments      *)
(* '<A>' and '<B>' are required together" for the first pair (A, B) of     *)
(* which the candidate bucket holds only one name or neither; the group    *)
(* passes only when it holds both names of every pair.                     *)
(***************************************************************************)
RequiredTogetherUnlessBoth ==
    (Done /\ WellFormed /\ failed_at # "mutually_exclusive") =>
        LET pairs == RulesOf(required_together)
            hits == {k \in 1..Len(pairs) : ~(Present(pairs[k][1]) /\ Present(pairs[k][2]))}
        IN IF hits = {}
           THEN failed_at # "required_together"
           ELSE /\ Failed
                /\ failed_at = "required_together"
                /\ Message = "Arguments '" \o pairs[Least(hits)][1] \o "' and '"
                             \o pairs[Least(hits)][2] \o "' are required together"

\* the input holds neither name of the pair and the pair is rejected
RequiredTogetherWitness ==
    /\ Done /\ failed_at = "required_together"
    /\ required_together = Some(<<PairA>>)
    /\ ~Present("api_url") /\ ~Present("url")
    /\ Message = "Arguments 'api_url' and 'url' are required together"

(***************************************************************************)
(* C13: required-together as the data model states it.  For a pair (A, B)  *)
(* the input must hold both names or neither: unless the mutually-         *)
(* exclusive group failed first, build fails at required-together exactly  *)
(* when the candidate bucket holds exactly one name of some pair.          *)
(***************************************************************************)
RequiredTogetherBothOrNeither ==
    (Done /\ WellFormed /\ failed_at # "mutually_exclusive") =>
        LET pairs == RulesOf(required_together)
            hits == {k \in 1..Len(pairs) : Present(pairs[k][1]) # Present(pairs[k][2])}
        IN (failed_at = "required_together") <=> (hits # {})

(***************************************************************************)
(* C14: required-one-of.  Unless an earlier group failed, build fails with *)
(* "At least one of the arguments '<A>' and '<B>' must be present" if and  *)
(* only if the candidate bucket holds neither name of some pair (A, B),    *)
(* the first such pair being the one reported; a pair of which one or both *)
(* names are present passes.                                               *)
(***************************************************************************)
RequiredOneOfNeither ==
    (Done /\ WellFormed /\ failed_at \notin {"mutually_exclusive", "required_together"}) =>
        LET pairs == RulesOf(required_one_of)
            hits == {k \in 1..Len(pairs) : ~Present(pairs[k][1]) /\ ~Present(pairs[k][2])}
        IN IF hits = {}
           THEN failed_at # "required_one_of"
           ELSE /\ Failed
                /\ failed_at = "required_one_of"
                /\ Message = "At least one of the arguments '" \o pairs[Least(hits)][1]
                             \o "' and '" \o pairs[Least(hits)][2] \o "' must be present"

\* the first pair passes with one name present, the second has neither
RequiredOneOfWitness ==
    /\ Done /\ failed_at = "required_one_of"
    /\ required_one_of = Some(<<PairB, PairA>>)
    /\ Present("login") /\ ~Present("extra")
    /\ ~Present("api_url") /\ ~Present("url")
    /\ Message = "At least one of the arguments 'api_url' and 'url' must be present"

(***************************************************************************)
(* C15: required-if.  A rule (key, value, names, any) fires only when the  *)
(* candidate bucket holds key with a value equal to value; a rule that     *)
(* fires fails unless, with any = true, at least one of names is present,  *)
(* or, with any = false, every one of names is present; a rule whose key   *)
(* is absent or has another value never fails.  Unless an earlier group    *)
(* failed, build fails at required-if exactly when some rule fails, with   *)
(* the message of the first one.                                           *)
(***************************************************************************)
Fires(rule) == Present(rule[1]) /\ Candidates[rule[1]] = rule[2]

Satisfied(rule) ==
    IF rule[4]
    THEN \E k \in 1..Len(rule[3]) : Present(rule[3][k])
    ELSE \A k \in 1..Len(rule[3]) : Present(rule[3][k])

RequiredIfFiring ==
    (Done /\ WellFormed
        /\ failed_at \notin {"mutually_exclusive", "required_together", "required_one_of"}) =>
        LET rules == RulesOf(required_if)
            hits == {k \in 1..Len(rules) : Fires(rules[k]) /\ ~Satisfied(rules[k])}
        IN IF hits = {}
           THEN failed_at # "required_if"
           ELSE /\ Failed
                /\ failed_at = "required_if"
                /\ Message = (IF rules[Least(hits)][4] THEN "No arguments"
                              ELSE "Not all arguments")
                             \o " required by '" \o rules[Least(hits)][1] \o "'='"
                             \o DisplayValue(rules[Least(hits)][2]) \o "' are present"

\* the first rule is skipped because login has another value; the second
\* fires with any = false while only one of its two names is present
RequiredIfWitness ==
    /\ Done /\ failed_at = "required_if"
    /\ Len(RulesOf(required_if)) = 2
    /\ ~Fires(RulesOf(required_if)[1]) /\ ~Satisfied(RulesOf(required_if)[1])
    /\ Present("api_url") /\ ~Present("url")
    /\ Message = "Not all arguments required by 'login'='true' are present"

(***************************************************************************)
(* C16: required-by.  A rule (key, names) is triggered when the argument   *)
(* spec declares key; unless an earlier group failed, build fails with     *)
(* "Arguments required by '<key>' '<names>' are not present" exactly when  *)
(* some triggered rule has a name that the candidate bucket does not hold. *)
(***************************************************************************)
RequiredByCandidates ==
    (Done /\ WellFormed
        /\ failed_at \notin {"mutually_exclusive", "required_together", "required_one_of",
                             "required_if"}) =>
        LET rules == RulesOf(required_by)
            hits == {k \in 1..Len(rules) :
                        /\ rules[k][1] \in DOMAIN Declared
                        /\ \E j \in 1..Len(rules[k][2]) : ~Present(rules[k][2][j])}
        IN (failed_at = "required_by") <=> (hits # {})

(***************************************************************************)
(* Scenarios of build followed by exit_json: api_url secret or not,        *)
(* required or not, with or without a default; supplied or not             *)
(***************************************************************************)
ExitSpecs ==
    {JObjectOf([k \in {"api_url", "url"} |->
        IF k = "api_url"
        THEN RawArgument(Some("str"), required, no_log, default, None, None)
        ELSE Arg("str", FALSE, None, None, None)]) :
        required \in BOOLEAN, no_log \in BOOLEAN,
        default \in {None, Some(JString("d"))}}

ExitInputs ==
    Documents({"api_url", "url"},
              [k \in {"api_url", "url"} |->
                  IF k = "api_url" THEN {JString("localhost")} ELSE {JString("x")}])

InitExit ==
    InitFrom({Scenario(spec, RunOn(doc), EnvUnset) : spec \in ExitSpecs, doc \in ExitInputs})

NextExit == Build \/ ExitJson

SpecExit == InitExit /\ [][NextExit]_vars

(***************************************************************************)
(* C17: masking at emission.  In the document exit_json prints, every      *)
(* result field named as an argument that the spec flags no_log carries    *)
(* the sentinel, whatever its value, whatever the changed flag and whether *)
(* or not the argument was supplied; every other field carries the         *)
(* caller's value; failed is false and changed is the caller's flag.       *)
(***************************************************************************)
Emitted == stdout[Len(stdout)]

Field(doc, name) == doc[CHOOSE k \in 1..Len(doc) : doc[k][1] = name][2]

MaskingAtEmission ==
    (pc = "exited" /\ IsSome(exit_call)) =>
        LET call == Unwrap(exit_call)
        IN /\ {Emitted[k][1] : k \in 1..Len(Emitted)} =
                 {"changed", "failed"} \cup DOMAIN call.result
           /\ Len(Emitted) = 2 + Cardinality(DOMAIN call.result)
           /\ Field(Emitted, "changed") = JBool(call.changed)
           /\ Field(Emitted, "failed") = JBool(FALSE)
           /\ \A name \in DOMAIN call.result :
                 Field(Emitted, name) =
                    IF name \in DOMAIN Declared /\ Declared[name].no_log
                    THEN JString("VALUE_SPECIFIED_IN_NO_LOG_PARAMETER")
                    ELSE call.result[name]

(***************************************************************************)
(* C18: reconciliation of an absent argument.  For every declared argument *)
(* that is not required and not supplied, the normalized mapping holds the *)
(* declared default when there is one and does not hold the argument       *)
(* otherwise, and so does the mapping that reconciliation has built; such  *)
(* an argument is never recorded as missing and never makes                *)
(* reconciliation fail.                                                    *)
(***************************************************************************)
AbsentOptional ==
    {name \in DOMAIN Declared : ~Declared[name].required /\ ~Present(name)}

AbsentArgument ==
    /\ Succeeded =>
          \A name \in AbsentOptional :
             IF IsSome(Declared[name].default)
             THEN /\ name \in DOMAIN Params
                  /\ Params[name].value = Unwrap(Declared[name].default)
             ELSE name \notin DOMAIN Params
    /\ (WellFormed /\ pc \in {"reconcile", "missing_required", "type_check",
                              "unknown_args", "internal_args"}) =>
          \A name \in AbsentOptional \ todo :
             IF IsSome(Declared[name].default)
             THEN /\ name \in DOMAIN result_params
                  /\ result_params[name].value = Unwrap(Declared[name].default)
             ELSE name \notin DOMAIN result_params
    /\ (WellFormed /\ pc \notin {"new", "again", "argument_spec"}) =>
          \A name \in AbsentOptional : ~Contains(missing_required_args, name)
    /\ (Done /\ WellFormed /\ DOMAIN Declared = AbsentOptional) =>
          failed_at \notin {"reconcile", "missing_required"}

\* api_url is absent and defaulted, url is absent without a default
AbsentArgumentWitness ==
    /\ Succeeded
    /\ AbsentOptional = {"api_url", "url"}
    /\ Declared["api_url"].default = Some(JString("d"))
    /\ Declared["url"].default = None
    /\ DOMAIN Params = {"api_url"}
    /\ Params["api_url"].value = JString("d")

(***************************************************************************)
(* Scenarios of the reserved prefix: an input that holds                   *)
(* '_ansible_verbosity' beside the candidate keys, a spec that declares    *)
(* that name or not, and groups that name it                               *)
(***************************************************************************)
PairInternal == <<"api_url", "_ansible_verbosity">>
InternalPairLists == {<<PairInternal>>}

InternalRequiredIfLists ==
    {<<<<"_ansible_verbosity", JInt(3), <<"extra">>, FALSE>>>>,
     <<<<"api_url", JString("localhost"), <<"_ansible_verbosity">>, TRUE>>>>}

SetInternalMutuallyExclusive == SetMutuallyExclusiveTo(InternalPairLists)
SetInternalRequiredTogether == SetRequiredTogetherTo(InternalPairLists)
SetInternalRequiredOneOf == SetRequiredOneOfTo(InternalPairLists)
SetInternalRequiredIf == SetRequiredIfTo(InternalRequiredIfLists)

PartitionSpecs ==
    {JObjectOf([k \in {"api_url"} |-> Arg("str", required, None, None, None)]) :
        required \in BOOLEAN}
    \cup {JObjectOf([k \in {"api_url", "_ansible_verbosity"} |->
                IF k = "api_url" THEN Arg("str", FALSE, None, None, None)
                ELSE Arg("uint", required, default, None, None)]) :
            required \in BOOLEAN, default \in {None, Some(JInt(1))}}

PartitionInputs ==
    Documents({"api_url", "extra", "_ansible_verbosity"},
              [k \in {"api_url", "extra", "_ansible_verbosity"} |->
                  CASE k = "api_url" -> {JString("localhost")}
                    [] k = "extra" -> {JString("x")}
                    [] k = "_ansible_verbosity" -> {JInt(3), JInt(300)}])

InitPartition ==
    InitFrom({Scenario(spec, RunOn(doc), EnvUnset) :
                 spec \in PartitionSpecs, doc \in PartitionInputs})

NextPartition ==
    \/ SetInternalMutuallyExclusive
    \/ SetInternalRequiredTogether
    \/ SetInternalRequiredOneOf
    \/ SetInternalRequiredIf
    \/ Build

SpecPartition == InitPartition /\ [][NextPartition]_vars

(***************************************************************************)
(* C19: partition by reserved prefix.  The input keys that begin with '_'  *)
(* feed no validation step: the candidate bucket is the input without      *)
(* them, so such a key never counts as present for a constraint group,     *)
(* never satisfies a required argument, never puts its value in the        *)
(* normalized mapping and is never reported as unknown; the validation     *)
(* outcome is the one of the candidate keys alone.                         *)
(***************************************************************************)
InputFields == all_input_args.file.value.fields

Reserved(key) == SubSeq(key, 1, 1) = "_"

CandidateKeys == {key \in DOMAIN InputFields : ~Reserved(key)}

ReservedKeys == {key \in DOMAIN InputFields : Reserved(key)}

PartitionByPrefix ==
    /\ (WellFormed /\ pc \notin {"new", "again"}) =>
          /\ module_args = [key \in CandidateKeys |-> InputFields[key]]
          /\ DOMAIN result_params \cap ReservedKeys \subseteq
                {key \in DOMAIN Declared : IsSome(Declared[key].default)}
    /\ (Done /\ WellFormed) =>
          /\ IF ViolatedPhases = {}
             THEN failed_at \in {"", "internal_args"}
             ELSE failed_at = EarliestViolated /\ Message \in PhaseMessages(EarliestViolated)
          /\ failed_at = "unknown_args" =>
                \E names \in Orders(CandidateKeys \ DOMAIN Declared) :
                   Message = "Unknown arguments for module found: '"
                             \o DebugStringVec(names) \o "'"
          /\ \A key \in ReservedKeys \cap DOMAIN Declared :
                /\ Declared[key].required => Failed
                /\ (Succeeded /\ key \in DOMAIN Params) =>
                      Params[key].value = Unwrap(Declared[key].default)
          /\ \A key \in ReservedKeys \ DOMAIN Declared :
                Succeeded => key \notin DOMAIN Params
    /\ (Done /\ WellFormed /\ ReservedKeys # {}) =>
          /\ (IsSome(required_together) /\ failed_at # "mutually_exclusive") =>
                failed_at = "required_together"
          /\ (IsSome(mutually_exclusive) /\ ~Present("api_url")) =>
                failed_at # "mutually_exclusive"
          /\ (IsSome(required_one_of) /\ ~Present("api_url")
                 /\ failed_at \notin {"mutually_exclusive", "required_together"}) =>
                failed_at = "required_one_of"

\* the input holds both names of a required-together pair, one of them with
\* the reserved prefix, and the pair is rejected
PartitionWitness ==
    /\ Done /\ failed_at = "required_together"
    /\ required_together = Some(<<PairInternal>>)
    /\ DOMAIN InputFields = {"api_url", "_ansible_verbosity"}
    /\ InputFields["_ansible_verbosity"] = JInt(3)

(***************************************************************************)
(* C20: environment reads are confined to fallback resolution.  During one *)
(* build the environment is read only for a declared argument that is      *)
(* required, not supplied and declares a fallback variable, and then that  *)
(* variable, exactly once for each such argument that reconciliation       *)
(* reaches; it is not read for a supplied argument, not read when a        *)
(* constraint group has failed, and never written.                         *)
(***************************************************************************)
Eligible ==
    {name \in DOMAIN Declared :
        /\ Declared[name].required
        /\ ~Present(name)
        /\ IsSome(Declared[name].fallback)}

ReadsConfined ==
    WellFormed =>
        /\ \A read \in DOMAIN env_reads :
              /\ read[1] \in Eligible
              /\ read[2] = Unwrap(Declared[read[1]].fallback)
              /\ env_reads[read] = 1
        /\ pc \in {"reconcile", "missing_required", "type_check", "unknown_args",
                   "internal_args"} =>
              \A name \in Eligible \ todo :
                 <<name, Unwrap(Declared[name].fallback)>> \in DOMAIN env_reads
        /\ (Done /\ failed_at = "reconcile" /\ ChoiceFailures = {}) =>
              \E name \in FallbackFailures :
                 <<name, Unwrap(Declared[name].fallback)>> \in DOMAIN env_reads
        /\ (Done /\ failed_at \in {"", "internal_args"}) =>
              {read[1] : read \in DOMAIN env_reads} = Eligible
        /\ (Done /\ failed_at \in GroupPhases) => env_reads = EmptyMap

EnvironmentReads == []ReadsConfined /\ [][environ' = environ]_vars

\* a successful build with a group set read the variable once, for api_url
EnvironmentReadsWitness ==
    /\ Succeeded
    /\ IsSome(required_one_of)
    /\ Eligible = {"api_url"}
    /\ DOMAIN env_reads = {<<"api_url", "TEST_API_URL">>}
    /\ env_reads[<<"api_url", "TEST_API_URL">>] = 1
    /\ Params["api_url"].value = JString(environ["TEST_API_URL"].val)


(***************************************************************************)
(* Scenarios of structural errors: process arguments that name no file or  *)
(* two, a file that cannot be read, that holds no JSON or holds a JSON     *)
(* value that is no object; an argument spec that is no object or has an   *)
(* entry whose type is missing or is not one of the seven names            *)
(***************************************************************************)
\* the type names tried for api_url: the seven names, other spellings of them and
\* a name that is none of them
TypeNamePool ==
    {"bool", "str", "float", "int", "uint", "list", "dict",
     "Str", "STR", "Bool", "UINT", "string"}

StructuralSpecs ==
    {JString("api_url"), JArray}
    \cup {JObjectOf([k \in {"api_url", "url"} |->
                IF k = "api_url" THEN RawArgument(type, FALSE, FALSE, None, None, None)
                ELSE Arg("str", TRUE, None, None, None)]) :
            type \in {None} \cup {Some(t) : t \in TypeNamePool}}

StructuralInputs ==
    {RunOn(doc) : doc \in Documents({"api_url", "url", "extra"},
                                    [k \in {"api_url", "url", "extra"} |->
                                        CASE k = "api_url" -> {JString("localhost")}
                                          [] k = "url" -> {JString("x")}
                                          [] k = "extra" -> {JString("x")}])}
    \cup {InputArgs(<<"module_name">>, FileJson(JObjectOf(EmptyMap))),
          InputArgs(<<"module_name", "input.json", "more.json">>, FileJson(JObjectOf(EmptyMap))),
          InputArgs(<<"module_name", "input.json">>,
                    FileUnreadable("No such file or directory (os error 2)")),
          InputArgs(<<"module_name", "input.json">>,
                    FileMalformed("{", "EOF while parsing an object at line 1 column 1")),
          InputArgs(<<"module_name", "input.json">>, FileJson(JArray)),
          InputArgs(<<"module_name", "input.json">>, FileJson(JInt(5)))}

InitStructural ==
    InitFrom({Scenario(spec, input, EnvUnset) :
                 spec \in StructuralSpecs, input \in StructuralInputs})

NextStructural ==
    \/ SetMutuallyExclusive
    \/ SetRequiredOneOf
    \/ Build

SpecStructural == InitStructural /\ [][NextStructural]_vars

\* build has ended: it returned, or fail_json ended the process
Ended == pc \in {"done", "exited"}

\* the message of the failure, returned or printed
Reported == IF pc = "exited" THEN stdout[Len(stdout)].msg ELSE Message

StartsWith(text, prefix) ==
    Len(text) >= Len(prefix) /\ SubSeq(text, 1, Len(prefix)) = prefix

EndsWith(text, suffix) ==
    Len(text) >= Len(suffix)
    /\ SubSeq(text, Len(text) - Len(suffix) + 1, Len(text)) = suffix

\* the shapes of the structural messages
StructuralMessage(msg) ==
    \/ StartsWith(msg, "Module '") /\ EndsWith(msg, "No module arguments file provided")
    \/ StartsWith(msg, "Could not read input json file '")
    \/ StartsWith(msg, "Could not parse JSON from input ")
    \/ EndsWith(msg, " must be an object")
    \/ msg = "Wrong argument spec format, must be a valid JSON object"
    \/ msg = "missing field 'type'"
    \/ StartsWith(msg, "unknown variant '")

\* the shapes of the messages of the constraint groups and the per-argument checks
ValidationMessage(msg) ==
    \/ StartsWith(msg, "Arguments '")
    \/ StartsWith(msg, "At least one of the arguments '")
    \/ StartsWith(msg, "No arguments required by '")
    \/ StartsWith(msg, "Not all arguments required by '")
    \/ StartsWith(msg, "Arguments required by '")
    \/ StartsWith(msg, "'")
    \/ StartsWith(msg, "Argument '")
    \/ StartsWith(msg, "missing required arguments: ")
    \/ StartsWith(msg, "Unknown arguments for module found: ")

TaggedOutcome ==
    /\ stdout = <<>>
    /\ pc # "exited"
    /\ (Ended /\ failed_at # "") =>
          /\ IsSome(outcome)
          /\ Unwrap(outcome).tag = "Err"


(***************************************************************************)
(* C23: a default on a required argument never triggers.  A required       *)
(* argument that declares a default and no fallback and is not supplied    *)
(* makes build fail, unless an earlier step failed, with the missing-      *)
(* required message that names it; and in a success mapping the value of   *)
(* a required argument is never its default: it is the supplied value or   *)
(* the value its fallback resolved.                                        *)
(***************************************************************************)
RequiredWithDefault ==
    {name \in DOMAIN Declared : Declared[name].required /\ IsSome(Declared[name].default)}

RequiredDefaultFails ==
    (Done /\ WellFormed /\ RequiredWithDefault \cap MissingNames # {}
        /\ failed_at \notin BeforeMissing) =>
        /\ Failed
        /\ failed_at = "missing_required"
        /\ \E names \in Orders(MissingNames) :
              Message = "missing required arguments: " \o DebugStringVec(names)

RequiredDefaultNeverTriggers ==
    /\ RequiredDefaultFails
    /\ Succeeded =>
          \A name \in RequiredWithDefault :
             /\ name \in DOMAIN Params
             /\ Params[name].value =
                   IF Present(name) THEN Candidates[name]
                   ELSE JString(environ[Unwrap(Declared[name].fallback)].val)


(***************************************************************************)
(* C24: spec construction accepts exactly the seven type names bool, str,  *)
(* float, int, uint, list, dict, in any letter case ("str", "Str" and      *)
(* "STR" all give the string kind), and fails with a structural error for  *)
(* every other name and for an entry without a type.                       *)
(***************************************************************************)
UpperLetters == "ABCDEFGHIJKLMNOPQRSTUVWXYZ"
LowerLetters == "abcdefghijklmnopqrstuvwxyz"

LowerChar(c) ==
    IF \E k \in 1..Len(UpperLetters) : SubSeq(UpperLetters, k, k) = c
    THEN LET k == CHOOSE j \in 1..Len(UpperLetters) : SubSeq(UpperLetters, j, j) = c
         IN SubSeq(LowerLetters, k, k)
    ELSE c

RECURSIVE LowerFrom(_, _)
LowerFrom(text, k) ==
    IF k > Len(text) THEN "" ELSE LowerChar(SubSeq(text, k, k)) \o LowerFrom(text, k + 1)

SevenNames == {"bool", "str", "float", "int", "uint", "list", "dict"}

KindNamed(name) ==
    CASE name = "bool" -> "Bool"
      [] name = "str" -> "Str"
      [] name = "float" -> "Float"
      [] name = "int" -> "Int"
      [] name = "uint" -> "Uint"
      [] name = "list" -> "List"
      [] name = "dict" -> "Dict"

\* the entries of the raw spec whose type is one of the seven names in some case
Recognised ==
    {name \in DOMAIN argument_spec.fields :
        /\ IsSome(argument_spec.fields[name].type)
        /\ LowerFrom(Unwrap(argument_spec.fields[name].type), 1) \in SevenNames}

TypeNamesCaseInsensitive ==
    (/\ parse_input_json(all_input_args).tag = "Ok"
     /\ is_object(argument_spec)
     /\ pc \notin {"new", "argument_spec"}) =>
        IF Recognised = DOMAIN argument_spec.fields
        THEN /\ failed_at # "argument_spec"
             /\ DOMAIN spec_args = DOMAIN argument_spec.fields
             /\ \A name \in DOMAIN spec_args :
                   spec_args[name].value_type =
                      KindNamed(LowerFrom(Unwrap(argument_spec.fields[name].type), 1))
        ELSE /\ Ended
             /\ failed_at = "argument_spec"
             /\ StructuralMessage(Reported)


(***************************************************************************)
(* Scenarios of the rule lists: every setter is called with lists of up to *)
(* three rules, of which the input can satisfy the first and violate the   *)
(* two that follow                                                         *)
(***************************************************************************)
TripleLists ==
    {<<PairA, PairB, <<"url", "login">>>>, <<<<"url", "login">>, PairB, PairA>>, <<PairB>>}

RequiredIfTriples ==
    {<<<<"login", JBool(FALSE), <<"url">>, TRUE>>,
       <<"login", JBool(TRUE), <<"api_url", "url">>, FALSE>>,
       <<"login", JBool(TRUE), <<"extra", "url">>, TRUE>>>>,
     <<<<"login", JBool(TRUE), <<"extra", "url">>, TRUE>>,
       <<"login", JBool(TRUE), <<"api_url", "url">>, FALSE>>>>}

RequiredByTriples ==
    {<<<<"login", <<"api_url">>>>, <<"url", <<"user">>>>, <<"api_url", <<"password", "url">>>>>>,
     <<<<"user", <<"password">>>>, <<"login", <<"api_url", "url">>>>>>}

ListInputs ==
    Documents({"api_url", "url", "login", "extra"},
              [k \in {"api_url", "url", "login", "extra"} |->
                  CASE k = "api_url" -> {JString("localhost")}
                    [] k = "url" -> {JString("x")}
                    [] k = "login" -> {JBool(TRUE)}
                    [] k = "extra" -> {JString("x")}])

InitLists ==
    InitFrom({Scenario(BuilderSpec(Arg("str", FALSE, None, None, None),
                                   Arg("str", FALSE, None, None, None)),
                       RunOn(doc), EnvUnset) : doc \in ListInputs})

NextLists ==
    \/ SetMutuallyExclusiveTo(TripleLists)
    \/ SetRequiredTogetherTo(TripleLists)
    \/ SetRequiredOneOfTo(TripleLists)
    \/ SetRequiredIfTo(RequiredIfTriples)
    \/ SetRequiredByTo(RequiredByTriples)
    \/ Build

SpecLists == InitLists /\ [][NextLists]_vars

(***************************************************************************)
(* C25: within one constraint group the rules are evaluated in list order  *)
(* and evaluation stops at the first violated rule.  A failure of a group  *)
(* carries the message of the violated rule that comes first in the list,  *)
(* also when later rules are violated too and whatever satisfied rules     *)
(* precede it; a group fails, unless an earlier group did, exactly when    *)
(* one of its rules is violated.                                           *)
(***************************************************************************)
\* the positions of the rules of a group that the code finds violated
ViolatedRules(phase) ==
    CASE phase = "mutually_exclusive" ->
            {k \in 1..Len(RulesOf(mutually_exclusive)) :
                Present(RulesOf(mutually_exclusive)[k][1])
                \/ Present(RulesOf(mutually_exclusive)[k][2])}
      [] phase = "required_together" ->
            {k \in 1..Len(RulesOf(required_together)) :
                ~(Present(RulesOf(required_together)[k][1])
                  /\ Present(RulesOf(required_together)[k][2]))}
      [] phase = "required_one_of" ->
            {k \in 1..Len(RulesOf(required_one_of)) :
                ~Present(RulesOf(required_one_of)[k][1])
                /\ ~Present(RulesOf(required_one_of)[k][2])}
      [] phase = "required_if" ->
            {k \in 1..Len(RulesOf(required_if)) :
                Fires(RulesOf(required_if)[k]) /\ ~Satisfied(RulesOf(required_if)[k])}
      [] phase = "required_by" ->
            {k \in 1..Len(RulesOf(required_by)) :
                /\ RulesOf(required_by)[k][1] \in DOMAIN Declared
                /\ \E j \in 1..Len(RulesOf(required_by)[k][2]) :
                      RulesOf(required_by)[k][2][j] \notin DOMAIN Declared}

\* the message of rule k of a group
RuleMessage(phase, k) ==
    CASE phase = "mutually_exclusive" ->
            "Arguments '" \o RulesOf(mutually_exclusive)[k][1] \o "' and '"
            \o RulesOf(mutually_exclusive)[k][2] \o "' are mutually exclusive"
      [] phase = "required_together" ->
            "Arguments '" \o RulesOf(required_together)[k][1] \o "' and '"
            \o RulesOf(required_together)[k][2] \o "' are required together"
      [] phase = "required_one_of" ->
            "At least one of the arguments '" \o RulesOf(required_one_of)[k][1]
            \o "' and '" \o RulesOf(required_one_of)[k][2] \o "' must be present"
      [] phase = "required_if" ->
            (IF RulesOf(required_if)[k][4] THEN "No arguments" ELSE "Not all arguments")
            \o " required by '" \o RulesOf(required_if)[k][1] \o "'='"
            \o DisplayValue(RulesOf(required_if)[k][2]) \o "' are present"
      [] phase = "required_by" ->
            "Arguments required by '" \o RulesOf(required_by)[k][1] \o "' '"
            \o DebugStringVec(RulesOf(required_by)[k][2]) \o "' are not present"

GroupOrder ==
    <<"mutually_exclusive", "required_together", "required_one_of", "required_if",
      "required_by">>

ListOrder ==
    (Done /\ WellFormed) =>
        \A g \in 1..Len(GroupOrder) :
           (\A e \in 1..(g - 1) : failed_at # GroupOrder[e]) =>
              IF ViolatedRules(GroupOrder[g]) = {}
              THEN failed_at # GroupOrder[g]
              ELSE /\ Failed
                   /\ failed_at = GroupOrder[g]
                   /\ Message = RuleMessage(GroupOrder[g], Least(ViolatedRules(GroupOrder[g])))

\* the first pair of required-one-of is satisfied, the second and the third are
\* violated, and the second is the one named
ListOrderWitness ==
    /\ Done /\ failed_at = "required_one_of"
    /\ required_one_of = Some(<<PairA, PairB, <<"url", "login">>>>)
    /\ ViolatedRules("required_one_of") = {2, 3}
    /\ Message = "At least one of the arguments 'login' and 'extra' must be present"


(***************************************************************************)
(* C26: the choices restrict only the values the input supplies.  A        *)
(* default or a fallback-resolved value is stored without being compared   *)
(* with the choices of its argument: build returns the choices failure     *)
(* only for a supplied value, and in a success mapping the value of an     *)
(* argument with choices lies outside the choices exactly when the input   *)
(* did not supply it and the default or fallback value stored for it lies  *)
(* outside them.                                                           *)
(***************************************************************************)
DeclaresChoices == {name \in DOMAIN Declared : IsSome(Declared[name].choices)}

InChoices(name, value) ==
    \E k \in 1..Len(Unwrap(Declared[name].choices)) :
        Unwrap(Declared[name].choices)[k] = value

ChoicesOnlyForSupplied ==
    /\ (Failed /\ WellFormed /\ ChoiceFailures = {}) =>
          /\ ~StartsWith(Message, "Argument '")
          /\ failed_at = "reconcile" => FallbackFailures # {}
    /\ (WellFormed /\ pc \in {"reconcile", "missing_required", "type_check",
                              "unknown_args", "internal_args"}) =>
          \A name \in DeclaresChoices \ todo :
             (~Present(name) /\ IsSome(Stored(name))) =>
                /\ name \in DOMAIN result_params
                /\ result_params[name].value = Unwrap(Stored(name))
    /\ Succeeded =>
          \A name \in DeclaresChoices \cap DOMAIN Params :
             ~InChoices(name, Params[name].value) <=>
                (~Present(name) /\ ~InChoices(name, Unwrap(Stored(name))))

\* api_url declares choices and takes "Hello" from its fallback variable
ChoicesOnlyForSuppliedWitness ==
    /\ Succeeded
    /\ "api_url" \in DeclaresChoices \cap FallbackResolved
    /\ Declared["api_url"].default = None
    /\ Params["api_url"].value = JString("Hello")
    /\ ~InChoices("api_url", JString("Hello"))


(***************************************************************************)
(* C27: a fallback-resolved value is always a JSON string.  The value      *)
(* stored for a required argument that is not supplied, has no default and *)
(* is resolved from a set variable is the string of the variable's text,   *)
(* whatever the text; when the declared type of such an argument is not    *)
(* the string type build fails, at the type check unless an earlier step   *)
(* failed, so that a success mapping holds a fallback value only for       *)
(* string-typed arguments.                                                 *)
(***************************************************************************)
FallbackOnly == {name \in FallbackResolved : ~IsSome(Declared[name].default)}

FallbackIsString ==
    /\ (WellFormed /\ pc \in {"reconcile", "missing_required", "type_check",
                              "unknown_args", "internal_args"}) =>
          \A name \in FallbackOnly \ todo :
             /\ name \in DOMAIN result_params
             /\ result_params[name].value.kind = "String"
             /\ result_params[name].value.s = environ[Unwrap(Declared[name].fallback)].val
    /\ (Done /\ WellFormed
           /\ \E name \in FallbackOnly : Declared[name].value_type # "Str") =>
          /\ Failed
          /\ failed_at \notin BeforeTypes =>
                /\ failed_at = "type_check"
                /\ \E name \in IllTyped :
                      Message = "'" \o name \o "' expected to be of type '"
                                \o Declared[name].value_type \o "', but got "
                                \o DisplayValue(Unwrap(Stored(name)))
    /\ Succeeded =>
          \A name \in FallbackOnly :
             /\ Declared[name].value_type = "Str"
             /\ Params[name].value.kind = "String"

\* an int argument resolved from a variable whose text is 5
FallbackIsStringWitness ==
    /\ Done /\ failed_at = "type_check"
    /\ FallbackOnly = {"api_url"}
    /\ Declared["api_url"].value_type = "Int"
    /\ environ[FALLBACK_VAR] = EnvSet("5")
    /\ Message = "'api_url' expected to be of type 'Int', but got \"5\""


(***************************************************************************)
(* C28: a declared argument whose name begins with '_' never receives a    *)
(* value from the input.  The input key of that name is not in the         *)
(* candidate bucket; when the argument is required and has no fallback,    *)
(* build fails, with the missing-required message naming it unless an      *)
(* earlier step failed, also when the input holds the key; when it is      *)
(* optional, a success mapping holds its default or does not hold it, and  *)
(* never the input's value.                                                *)
(***************************************************************************)
ReservedDeclared == {key \in DOMAIN Declared : Reserved(key)}

\* the required arguments without fallback that the candidate keys do not supply
NotSupplied ==
    {name \in DOMAIN Declared :
        /\ Declared[name].required
        /\ ~IsSome(Declared[name].fallback)
        /\ name \notin CandidateKeys}

ReservedNeverSupplied ==
    /\ (WellFormed /\ pc \notin {"new", "again"}) =>
          \A key \in ReservedDeclared :
             /\ key \notin DOMAIN module_args
             /\ key \in DOMAIN result_params =>
                   /\ IsSome(Declared[key].default)
                   /\ result_params[key].value = Unwrap(Declared[key].default)
    /\ (Done /\ WellFormed) =>
          \A key \in ReservedDeclared :
             IF Declared[key].required /\ ~IsSome(Declared[key].fallback)
             THEN /\ Failed
                  /\ key \in NotSupplied
                  /\ failed_at \notin BeforeMissing =>
                        /\ failed_at = "missing_required"
                        /\ \E names \in Orders(NotSupplied) :
                              Message = "missing required arguments: "
                                        \o DebugStringVec(names)
             ELSE Succeeded =>
                     IF IsSome(Declared[key].default)
                     THEN /\ key \in DOMAIN Params
                          /\ Params[key].value = Unwrap(Declared[key].default)
                          /\ key \in DOMAIN InputFields =>
                                Params[key].value # InputFields[key]
                     ELSE key \notin DOMAIN Params

\* the input holds '_ansible_verbosity', which the spec declares required, and
\* build reports it missing
ReservedNeverSuppliedWitness ==
    /\ Done /\ failed_at = "missing_required"
    /\ "_ansible_verbosity" \in DOMAIN InputFields
    /\ InputFields["_ansible_verbosity"] = JInt(3)
    /\ "_ansible_verbosity" \in ReservedDeclared
    /\ Declared["_ansible_verbosity"].required
    /\ Message = "missing required arguments: [\"_ansible_verbosity\"]"


(***************************************************************************)
(* C29: builder configuration.  A call of a setter puts the list it is     *)
(* given in its own group, in place of what the group held, and leaves the *)
(* argument spec, the input arguments and the four other groups as they    *)
(* were, so that of two calls of one setter only the last list is kept; no *)
(* other step changes a group; and the outcome of build is the one the     *)
(* final content of the five groups gives, whatever calls produced it.     *)
(***************************************************************************)
GroupNamed(name) ==
    CASE name = "mutually_exclusive" -> mutually_exclusive
      [] name = "required_together" -> required_together
      [] name = "required_one_of" -> required_one_of
      [] name = "required_if" -> required_if
      [] name = "required_by" -> required_by

\* the group the last call names holds the list of that call
SettersKept ==
    (pc = "new" /\ IsSome(last_setter)) =>
        GroupNamed(Unwrap(last_setter)[1]) = Some(Unwrap(last_setter)[2])

\* the groups that have a violated rule, by position in the order of evaluation
ViolatedGroups == {g \in 1..Len(GroupOrder) : ViolatedRules(GroupOrder[g]) # {}}

OutcomeOfFinalGroups ==
    (Done /\ WellFormed) =>
        IF ViolatedGroups = {}
        THEN /\ failed_at \notin GroupPhases
             /\ IF ViolatedPhases = {}
                THEN failed_at \in {"", "internal_args"}
                ELSE failed_at = EarliestViolated /\ Message \in PhaseMessages(EarliestViolated)
        ELSE /\ Failed
             /\ failed_at = GroupOrder[Least(ViolatedGroups)]
             /\ Message = RuleMessage(GroupOrder[Least(ViolatedGroups)],
                                      Least(ViolatedRules(GroupOrder[Least(ViolatedGroups)])))

SetterStep ==
    IF setter_calls' # setter_calls
    THEN /\ IsSome(last_setter')
         /\ argument_spec' = argument_spec
         /\ all_input_args' = all_input_args
         /\ environ' = environ
         /\ \A name \in {GroupOrder[g] : g \in 1..Len(GroupOrder)} :
               GroupNamed(name)' =
                  IF name = Unwrap(last_setter')[1]
                  THEN Some(Unwrap(last_setter')[2])
                  ELSE GroupNamed(name)
    ELSE /\ groups' = groups
         /\ argument_spec' = argument_spec
         /\ all_input_args' = all_input_args

BuilderConfiguration ==
    [](SettersKept /\ OutcomeOfFinalGroups) /\ [][SetterStep]_vars

\* required_one_of was called twice and the group holds the list of the last
\* call; no other group is set
BuilderConfigurationWitness ==
    /\ pc = "new" /\ setter_calls = 2
    /\ last_setter = Some(<<"required_one_of", <<PairB>>>>)
    /\ required_one_of = Some(<<PairB>>)
    /\ mutually_exclusive = None /\ required_together = None
    /\ required_if = None /\ required_by = None


(***************************************************************************)
(* C30: internal arguments are parsed before the module arguments are      *)
(* validated.  When an internal member of the input does not parse, build  *)
(* fails with "Could not parse internal arguments from ...", also when the *)
(* candidate arguments violate a validation rule: a validation failure is  *)
(* reported only for an input whose internal members parse.                *)
(***************************************************************************)
InternalArgumentsFirst ==
    (Done /\ WellFormed /\ ~InternalsParse) =>
        /\ Failed
        /\ failed_at = "internal_args"
        /\ StartsWith(Message, "Could not parse internal arguments from ")

====
